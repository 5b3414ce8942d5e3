------------------------- MODULE ScenarioRun_proofs -------------------------
(***************************************************************************)
(* Scenario runs, for every set of documents and every number of runs,     *)
(* sessions and step ids.                                                  *)
(***************************************************************************)
EXTENDS ScenarioRun, SequenceTheorems, FiniteSetTheorems, TLAPS

Active(r) == phase[r] \in {"steps", "cleanup"}

\* The step a run is at exists while its use case is under way.
ShapeOK ==
  \A r \in Runs :
    /\ Active(r) => doc[r] \in Scenarios
    /\ call[r] # None => Active(r) /\ at[r] <= Len(List(r))

TypeInv == TypeOK /\ ShapeOK

LEMMA CurrentStep ==
  ASSUME TypeInv, NEW r \in Runs, Active(r), at[r] <= Len(List(r))
  PROVE  Current(r) \in Steps
<1>1. doc[r] \in Scenarios /\ at[r] \in Nat \ {0}
  BY DEF TypeInv, TypeOK, ShapeOK
<1>2. List(r) \in Seq(Steps)
  BY <1>1, ScenariosAssumption DEF Valid, List
<1>3. Len(List(r)) \in Nat /\ DOMAIN List(r) = 1 .. Len(List(r))
  BY <1>2, LenProperties
<1>4. at[r] \in DOMAIN List(r)
  BY <1>1, <1>3
<1> QED
  BY <1>2, <1>4, ElementOfSeq DEF Current

LEMMA CurrentDomain ==
  ASSUME TypeInv, NEW r \in Runs, Active(r), at[r] <= Len(List(r))
  PROVE  at[r] \in DOMAIN List(r)
<1>1. doc[r] \in Scenarios /\ at[r] \in Nat \ {0}
  BY DEF TypeInv, TypeOK, ShapeOK
<1>2. List(r) \in Seq(Steps)
  BY <1>1, ScenariosAssumption DEF Valid, List
<1> QED
  BY <1>1, <1>2, LenProperties

LEMMA CallingStep ==
  ASSUME TypeInv, NEW r \in Runs, NEW kinds, Calling(r, kinds)
  PROVE  /\ Current(r) \in Steps /\ Active(r)
         /\ call[r] \in CallsOf /\ at[r] <= Len(List(r))
<1>1. Active(r) /\ at[r] <= Len(List(r)) /\ call[r] \in CallsOf
  BY DEF TypeInv, TypeOK, ShapeOK, Calling
<1> QED
  BY <1>1, CurrentStep

LEMMA ReadyStep ==
  ASSUME TypeInv, NEW r \in Runs, NEW kinds, Ready(r, kinds)
  PROVE  /\ Current(r) \in Steps /\ Active(r)
         /\ call[r] = None /\ at[r] <= Len(List(r))
<1>1. Active(r) /\ at[r] <= Len(List(r)) /\ call[r] = None
  BY DEF Ready, Running, Active
<1> QED
  BY <1>1, CurrentStep

\* Recording the outcome of a step keeps everything of a run well typed.
LEMMA ConcludeType ==
  ASSUME TypeInv, NEW r \in Runs, Active(r), at[r] <= Len(List(r)),
         NEW verdict \in Verdicts, NEW sid, Conclude(r, verdict, sid)
  PROVE  /\ phase' = phase /\ doc' = doc
         /\ at' \in [Runs -> Nat \ {0}]
         /\ call' = [call EXCEPT ![r] = None]
         /\ started' \in [Runs -> BOOLEAN]
         /\ context' \in [Runs -> SUBSET Ids]
         /\ results' \in [Runs -> Seq(Records)]
         /\ status' \in [Runs -> {"none", "passed", "failed", "skipped"}]
<1>1. Current(r) \in Steps
  BY CurrentStep
<1>2. Current(r).id \in Ids
  BY <1>1 DEF Steps
<1> DEFINE record == [step |-> Current(r), verdict |-> verdict,
                      cleanup |-> phase[r] = "cleanup"]
<1>3. record \in Records
  BY <1>1 DEF Records
<1>4. Append(results[r], record) \in Seq(Records)
  BY <1>3, AppendProperties DEF TypeInv, TypeOK
<1>5. results' = [results EXCEPT ![r] = Append(@, record)]
  BY DEF Conclude
<1>6. doc[r] \in Scenarios
  BY DEF TypeInv, ShapeOK
<1>7. Len(doc[r].steps) \in Nat
  BY <1>6, ScenariosAssumption, LenProperties DEF Valid
<1>8. results' \in [Runs -> Seq(Records)]
  BY <1>4, <1>5 DEF TypeInv, TypeOK
<1>9. phase' = phase /\ doc' = doc /\ call' = [call EXCEPT ![r] = None]
  BY DEF Conclude
<1>10. CASE phase[r] = "steps"
  <2>1. context' = [context EXCEPT ![r] = @ \cup {Current(r).id}]
    BY <1>10 DEF Conclude
  <2>2. at' = [at EXCEPT ![r] = IF verdict = "failed" THEN Len(doc[r].steps) + 1 ELSE @ + 1]
    BY <1>10 DEF Conclude
  <2>3. status' = [status EXCEPT ![r] = IF verdict = "failed" THEN "failed" ELSE @]
    BY <1>10 DEF Conclude
  <2>4. started' = [started EXCEPT ![r] =
                      @ \/ sid # None \/ Current(r).kind = "start_session"]
    BY <1>10 DEF Conclude
  <2>5. started' \in [Runs -> BOOLEAN]
    BY <2>4 DEF TypeInv, TypeOK
  <2>6. context' \in [Runs -> SUBSET Ids]
    BY <1>2, <2>1 DEF TypeInv, TypeOK
  <2>7. at' \in [Runs -> Nat \ {0}]
    BY <1>7, <2>2 DEF TypeInv, TypeOK
  <2>8. status' \in [Runs -> {"none", "passed", "failed", "skipped"}]
    BY <2>3 DEF TypeInv, TypeOK
  <2> QED
    BY <1>8, <1>9, <2>5, <2>6, <2>7, <2>8
<1>11. CASE phase[r] # "steps"
  <2>1. at' = [at EXCEPT ![r] = @ + 1] /\ UNCHANGED <<context, started, status>>
    BY <1>11 DEF Conclude
  <2>2. at' \in [Runs -> Nat \ {0}]
    BY <2>1 DEF TypeInv, TypeOK
  <2> QED
    BY <1>8, <1>9, <2>1, <2>2 DEF TypeInv, TypeOK
<1> QED
  BY <1>10, <1>11

\* ... and leaves the step of every other run in place.
LEMMA ConcludeInv ==
  ASSUME TypeInv, NEW r \in Runs, Active(r), at[r] <= Len(List(r)),
         NEW verdict \in Verdicts, NEW sid, Conclude(r, verdict, sid),
         session' \in Sessions \cup {None},
         outputs' \in [Ids -> {"absent", "empty"} \cup Sessions],
         owner' \in [Sessions -> Runs \cup {Other, None}],
         alive' \in SUBSET Sessions
  PROVE  TypeInv'
<1>1. TypeOK'
  BY ConcludeType DEF TypeInv, TypeOK
<1>2. \A q \in Runs : q # r => at'[q] = at[q]
  BY DEF Conclude, TypeInv, TypeOK
<1>3. ShapeOK'
  BY <1>2, ConcludeType DEF TypeInv, TypeOK, ShapeOK, Active, List
<1> QED
  BY <1>1, <1>3 DEF TypeInv

LEMMA RaisedInv ==
  ASSUME TypeInv, NEW r \in Runs, Active(r), at[r] <= Len(List(r)), Raised(r)
  PROVE  TypeInv'
<1>1. "failed" \in Verdicts
  BY DEF Verdicts
<1>2. UNCHANGED <<session, outputs, owner, alive>>
  BY DEF Raised, executor, world
<1> QED
  BY <1>1, <1>2, ConcludeInv DEF Raised, TypeInv, TypeOK

LEMMA OutputType ==
  ASSUME TypeInv, NEW r \in Runs, Current(r) \in Steps,
         NEW what \in {"absent", "empty"} \cup Sessions, Output(r, what)
  PROVE  outputs' \in [Ids -> {"absent", "empty"} \cup Sessions]
  BY DEF Output, TypeInv, TypeOK, Steps

LEMMA CallInv ==
  ASSUME TypeInv, NEW r \in Runs, Active(r), at[r] <= Len(List(r)),
         NEW s \in Sessions \cup {None}, NEW node \in Sessions \cup {None},
         NEW sole \in BOOLEAN, Call(r, s, node, sole)
  PROVE  TypeInv'
<1>1. [session |-> s, node |-> node, sole |-> sole] \in CallsOf
  BY DEF CallsOf
<1>2. TypeOK'
  BY <1>1 DEF Call, TypeInv, TypeOK, executor, world
<1>3. ShapeOK'
  BY DEF Call, TypeInv, TypeOK, ShapeOK, Active, List
<1> QED
  BY <1>2, <1>3 DEF TypeInv

LEMMA ScenarioInitType == Init => TypeInv
  BY EmptySeq DEF Init, TypeInv, TypeOK, ShapeOK, Active

LEMMA ScenarioStepType ==
  ASSUME TypeInv, NEW r \in Runs, Step(r)
  PROVE  TypeInv'
<1>1. CASE Begin(r)
  BY <1>1 DEF Begin, Admitted, Turn, TypeInv, TypeOK, ShapeOK, Active, List, executor, world
<1>2. CASE Skip(r)
  BY <1>2 DEF Skip, Admitted, Turn, TypeInv, TypeOK, ShapeOK, Active, List, executor, world
<1>3. CASE StepsDone(r)
  BY <1>3 DEF StepsDone, Running, Turn, TypeInv, TypeOK, ShapeOK, Active, List, executor, world
<1>4. CASE CleanupDone(r)
  BY <1>4 DEF CleanupDone, Running, Turn, TypeInv, TypeOK, ShapeOK, Active, List, executor, world
<1>5. CASE ConsumedEmpty(r)
  <2>1. Ready(r, {"action"}) /\ Output(r, "empty") /\ Conclude(r, "failed", session)
    BY <1>5 DEF ConsumedEmpty
  <2>2. UNCHANGED <<session, owner, alive>>
    BY <1>5 DEF ConsumedEmpty, world
  <2> QED
    BY <2>1, <2>2, ReadyStep, OutputType, ConcludeInv DEF TypeInv, TypeOK, Verdicts
<1>6. CASE CannotCall(r)
  BY <1>6, ReadyStep, RaisedInv DEF CannotCall
<1>7. CASE CallBound(r)
  BY <1>7, ReadyStep, CallInv DEF CallBound, TypeInv, TypeOK
<1>8. CASE CallAction(r)
  BY <1>8, ReadyStep, CallInv DEF CallAction, TypeInv, TypeOK
<1>9. CASE CallStart(r)
  BY <1>9, ReadyStep, CallInv DEF CallStart
<1>10. CASE CallStop(r)
  BY <1>10, ReadyStep, CallInv, RaisedInv DEF CallStop, TypeInv, TypeOK
<1>11. CASE Sleep(r)
  <2>1. Ready(r, {"sleep"}) /\ Output(r, "empty") /\ Conclude(r, "passed", None)
    BY <1>11 DEF Sleep
  <2>2. UNCHANGED <<session, owner, alive>>
    BY <1>11 DEF Sleep, world
  <2> QED
    BY <2>1, <2>2, ReadyStep, OutputType, ConcludeInv DEF TypeInv, TypeOK, Verdicts
<1>12. CASE EvaluateAssertion(r)
  <2>1. PICK verdict \in {"passed", "failed"} : Conclude(r, verdict, None)
    BY <1>12 DEF EvaluateAssertion
  <2>2. Ready(r, {"assert"}) /\ UNCHANGED <<session, owner, alive>>
    BY <1>12 DEF EvaluateAssertion, world
  <2>3. outputs' \in [Ids -> {"absent", "empty"} \cup Sessions]
    BY <1>12, <2>2, ReadyStep, OutputType DEF EvaluateAssertion, TypeInv, TypeOK
  <2> QED
    BY <2>1, <2>2, <2>3, ReadyStep, ConcludeInv DEF TypeInv, TypeOK, Verdicts
<1>13. CASE ReturnStart(r)
  <2>1. Calling(r, {"start_session"})
    BY <1>13 DEF ReturnStart
  <2>2. CASE Raised(r)
    BY <2>1, <2>2, CallingStep, RaisedInv
  <2>3. ASSUME NEW s \in Sessions, owner' = [owner EXCEPT ![s] = r],
               alive' = alive \cup {s}, session' = s,
               Output(r, "empty"), Conclude(r, "passed", s)
        PROVE TypeInv'
    BY <2>1, <2>3, CallingStep, OutputType, ConcludeInv DEF TypeInv, TypeOK, Verdicts
  <2> QED
    BY <1>13, <2>2, <2>3 DEF ReturnStart
<1>14. CASE ReturnFind(r)
  <2>1. Calling(r, {"find"})
    BY <1>14 DEF ReturnFind
  <2>2. CASE Raised(r)
    BY <2>1, <2>2, CallingStep, RaisedInv
  <2>3. ASSUME NEW what \in {"empty"} \cup Sessions, NEW verdict \in {"passed", "failed"},
               Output(r, what), Conclude(r, verdict, None), UNCHANGED <<session, world>>
        PROVE TypeInv'
    BY <2>1, <2>3, CallingStep, OutputType, ConcludeInv DEF TypeInv, TypeOK, Verdicts, world
  <2> QED
    BY <1>14, <2>2, <2>3 DEF ReturnFind, TypeInv, TypeOK
<1>15. CASE ReturnScroll(r)
  <2>1. Calling(r, {"scroll_into_view"}) /\ UNCHANGED <<session, world>>
    BY <1>15 DEF ReturnScroll
  <2>2. ASSUME NEW what \in {"empty"} \cup Sessions, NEW verdict \in {"passed", "failed"},
               Output(r, what), Conclude(r, verdict, None)
        PROVE TypeInv'
    BY <2>1, <2>2, CallingStep, OutputType, ConcludeInv DEF TypeInv, TypeOK, Verdicts, world
  <2>3. ASSUME Turn(r, "raised"), call' = [call EXCEPT ![r] = None],
               UNCHANGED <<doc, at, started, context, results, status, outputs>>
        PROVE TypeInv'
    BY <2>1, <2>3 DEF Turn, TypeInv, TypeOK, ShapeOK, Active, List, world
  <2> QED
    BY <1>15, <2>2, <2>3 DEF ReturnScroll, TypeInv, TypeOK
<1>16. CASE ReturnOther(r)
  <2>1. Calling(r, {"action", "input", "wait"})
    BY <1>16 DEF ReturnOther
  <2>2. CASE Raised(r)
    BY <2>1, <2>2, CallingStep, RaisedInv
  <2>3. ASSUME NEW verdict \in {"passed", "failed"}, Output(r, "empty"),
               Conclude(r, verdict, None), UNCHANGED <<session, world>>
        PROVE TypeInv'
    BY <2>1, <2>3, CallingStep, OutputType, ConcludeInv DEF TypeInv, TypeOK, Verdicts, world
  <2> QED
    BY <1>16, <2>2, <2>3 DEF ReturnOther
<1>17. CASE ReturnStop(r)
  <2>1. Calling(r, {"stop_session"})
    BY <1>17 DEF ReturnStop
  <2>2. CASE Raised(r)
    BY <2>1, <2>2, CallingStep, RaisedInv
  <2>3. ASSUME NEW verdict \in {"passed", "with_errors"}, Output(r, "empty"),
               Conclude(r, verdict, None), session' = None, alive' \in SUBSET Sessions,
               UNCHANGED owner
        PROVE TypeInv'
    BY <2>1, <2>3, CallingStep, OutputType, ConcludeInv DEF TypeInv, TypeOK, Verdicts
  <2> QED
    BY <1>17, <2>2, <2>3 DEF ReturnStop, TypeInv, TypeOK
<1> QED
  BY <1>1, <1>2, <1>3, <1>4, <1>5, <1>6, <1>7, <1>8, <1>9, <1>10, <1>11,
     <1>12, <1>13, <1>14, <1>15, <1>16, <1>17 DEF Step

LEMMA ScenarioNextType == TypeInv /\ [Next]_vars => TypeInv'
<1> SUFFICES ASSUME TypeInv, [Next]_vars PROVE TypeInv'
  OBVIOUS
<1>1. ASSUME NEW r \in Runs, Step(r) PROVE TypeInv'
  BY <1>1, ScenarioStepType
<1>2. ASSUME NEW s \in Sessions, OtherStarts(s) PROVE TypeInv'
  BY <1>2 DEF OtherStarts, run, executor, TypeInv, TypeOK, ShapeOK, Active, List
<1>3. ASSUME NEW s \in Sessions, Exits(s) PROVE TypeInv'
  BY <1>3 DEF Exits, run, executor, TypeInv, TypeOK, ShapeOK, Active, List
<1>4. CASE UNCHANGED vars
  BY <1>4 DEF vars, run, executor, world, TypeInv, TypeOK, ShapeOK, Active, List
<1> QED
  BY <1>1, <1>2, <1>3, <1>4 DEF Next

(***************************************************************************)
(* Whatever steps fail or raise, and however runs overlap, a run keeps to  *)
(* the steps of its document and its report keeps its type.                *)
(***************************************************************************)
THEOREM ScenarioTypeCorrect == Spec => []TypeOK
<1>1. TypeInv => TypeOK
  BY DEF TypeInv
<1> QED
  BY <1>1, ScenarioInitType, ScenarioNextType, PTL DEF Spec

-----------------------------------------------------------------------------
(***************************************************************************)
(* The session of a run, while the dispatcher keeps runs apart.            *)
(***************************************************************************)
Unstopped(r) ==
  \A i \in Reported(r, "stop_session") : results[r][i].verdict = "failed"

\* The executor remembers one session only, and runs share it: it is that of
\* the one active run as soon as that run has started one.
OwnInv ==
  /\ \A r, q \in Runs : Active(r) /\ Active(q) => r = q
  /\ \A r \in Runs : phase[r] = "idle" => Mine(r) = {}
  /\ \A r \in Runs : Active(r) /\ Mine(r) # {} /\ Unstopped(r) =>
       /\ session \in Mine(r)
       /\ Calling(r, Bound \cup {"stop_session"}) => call[r].session \in Mine(r)

\* A run that has stopped nothing had stopped nothing one step earlier.
LEMMA ConcludeHistory ==
  ASSUME TypeInv, NEW r \in Runs, Active(r), at[r] <= Len(List(r)),
         NEW verdict \in Verdicts, NEW sid, Conclude(r, verdict, sid), Unstopped(r)'
  PROVE  /\ Unstopped(r)
         /\ Current(r).kind = "stop_session" => verdict = "failed"
<1> DEFINE old == results[r]
           record == [step |-> Current(r), verdict |-> verdict,
                      cleanup |-> phase[r] = "cleanup"]
<1>1. old \in Seq(Records) /\ results'[r] = Append(old, record)
  BY DEF Conclude, TypeInv, TypeOK
<1>2. record \in Records
  BY CurrentStep DEF Records
<1> HIDE DEF old, record
<1>3. /\ Len(old) \in Nat /\ DOMAIN old = 1 .. Len(old)
      /\ DOMAIN Append(old, record) = 1 .. Len(old) + 1
      /\ \A i \in 1 .. Len(old) : Append(old, record)[i] = old[i]
      /\ Append(old, record)[Len(old) + 1] = record
  BY <1>1, <1>2, AppendProperties, LenProperties
<1>4. \A i \in 1 .. Len(old) + 1 :
        Append(old, record)[i].step.kind = "stop_session"
          => Append(old, record)[i].verdict = "failed"
  BY <1>1, <1>3 DEF Unstopped, Reported
<1>5. Unstopped(r)
  <2>1. \A i \in 1 .. Len(old) : old[i].step.kind = "stop_session" => old[i].verdict = "failed"
    BY <1>3, <1>4
  <2> QED
    BY <1>3, <2>1 DEF Unstopped, Reported, old
<1>6. record.step.kind = "stop_session" => record.verdict = "failed"
  BY <1>3, <1>4
<1> QED
  BY <1>5, <1>6 DEF record

LEMMA OwnInitInv == Init => OwnInv
  BY NamesAssumption DEF Init, OwnInv, Active, Mine

\* Nothing that leaves the runs, the executor and who started what alone
\* disturbs the invariant.
LEMMA OwnFrame ==
  ASSUME OwnInv, NEW r \in Runs, \A q \in Runs : Active(q)' => Active(q),
         \A q \in Runs : phase'[q] = "idle" => phase[q] = "idle",
         UNCHANGED <<session, owner>>,
         \A q \in Runs : Active(q)' /\ Unstopped(q)' => Unstopped(q),
         \A q \in Runs : Active(q)' /\ Mine(q) # {} /\ Unstopped(q) =>
           (Calling(q, Bound \cup {"stop_session"}) => call[q].session \in Mine(q))'
  PROVE  OwnInv'
  BY DEF OwnInv, Mine

\* Recording an outcome while the executor keeps its session ...
LEMMA ConcludeOwn ==
  ASSUME TypeInv, OwnInv, NEW r \in Runs, Active(r), at[r] <= Len(List(r)),
         NEW verdict \in Verdicts, NEW sid, Conclude(r, verdict, sid),
         UNCHANGED <<session, owner>>
  PROVE  OwnInv'
<1>1. phase' = phase /\ doc' = doc /\ call' = [call EXCEPT ![r] = None]
  BY ConcludeType
<1>2. \A q \in Runs : q # r => at'[q] = at[q] /\ results'[q] = results[q]
  BY DEF Conclude, TypeInv, TypeOK
<1>3. \A q \in Runs : Active(q) => q = r
  BY DEF OwnInv
<1>4. \A q \in Runs : Active(q)' => q = r
  BY <1>1, <1>3 DEF Active
<1>5. ~ Calling(r, Bound \cup {"stop_session"})'
  BY <1>1 DEF Calling, TypeInv, TypeOK
<1>6. Unstopped(r)' => Unstopped(r)
  BY ConcludeHistory
<1> QED
  BY <1>1, <1>4, <1>5, <1>6, OwnFrame DEF Active

\* ... and while a stop makes it forget its session.
LEMMA StoppedOwn ==
  ASSUME TypeInv, OwnInv, NEW r \in Runs, Active(r), at[r] <= Len(List(r)),
         NEW verdict \in Verdicts, NEW sid, Conclude(r, verdict, sid),
         UNCHANGED owner, Current(r).kind = "stop_session", verdict # "failed"
  PROVE  OwnInv'
<1>1. phase' = phase
  BY ConcludeType
<1>2. ~ Unstopped(r)'
  BY ConcludeHistory
<1>3. \A q \in Runs : Active(q)' => q = r
  BY <1>1 DEF OwnInv, Active
<1> QED
  BY <1>1, <1>2, <1>3 DEF OwnInv, Active, Mine

LEMMA StartedOwn ==
  ASSUME TypeInv, OwnInv, NEW r \in Runs, Active(r), at[r] <= Len(List(r)),
         NEW verdict \in Verdicts, NEW sid, Conclude(r, verdict, sid),
         NEW s \in Sessions, owner[s] = None, owner' = [owner EXCEPT ![s] = r],
         session' = s
  PROVE  OwnInv'
<1>1. phase' = phase /\ call' = [call EXCEPT ![r] = None]
  BY ConcludeType
<1>2. \A q \in Runs : Active(q)' => q = r
  BY <1>1 DEF OwnInv, Active
<1>3. ~ Calling(r, Bound \cup {"stop_session"})'
  BY <1>1 DEF Calling, TypeInv, TypeOK
<1>4. s \in Mine(r)'
  BY DEF Mine, TypeInv, TypeOK
<1>5. \A q \in Runs : phase[q] = "idle" => q # r
  BY DEF Active
<1>6. \A q \in Runs : q # r => Mine(q)' = Mine(q)
  BY NamesAssumption DEF Mine, TypeInv, TypeOK
<1> QED
  BY <1>1, <1>2, <1>3, <1>4, <1>5, <1>6 DEF OwnInv, Active

\* A use case is called with the session of the executor.
LEMMA CallOwn ==
  ASSUME TypeInv, OwnInv, NEW r \in Runs, NEW kinds, Ready(r, kinds),
         NEW s, NEW node, NEW sole, Call(r, s, node, sole),
         kinds \cap (Bound \cup {"stop_session"}) # {} => s = session \/ session = None
  PROVE  OwnInv'
<1>1. Active(r) /\ Current(r).kind \in kinds
  BY ReadyStep DEF Ready
<1>2. /\ UNCHANGED <<phase, doc, at, results, session, owner>>
      /\ call' = [call EXCEPT ![r] = [session |-> s, node |-> node, sole |-> sole]]
  BY DEF Call, executor, world
<1>3. call'[r].session = s
  BY <1>2 DEF TypeInv, TypeOK
<1>4. \A q \in Runs : Active(q)' => q = r
  BY <1>1, <1>2 DEF OwnInv, Active
<1>5. /\ Unstopped(r)' = Unstopped(r)
      /\ Current(r)' = Current(r)
      /\ Mine(r)' = Mine(r)
  BY <1>2 DEF Unstopped, Reported, Current, List, Mine
<1>6. ASSUME Mine(r) # {}, Unstopped(r), Calling(r, Bound \cup {"stop_session"})'
      PROVE call'[r].session \in Mine(r)
  <2>1. session \in Mine(r)
    BY <1>1, <1>6 DEF OwnInv
  <2>2. session # None
    BY <2>1, NamesAssumption DEF Mine
  <2>3. Current(r).kind \in kinds \cap (Bound \cup {"stop_session"})
    BY <1>1, <1>5, <1>6 DEF Calling
  <2> QED
    BY <1>3, <2>1, <2>2, <2>3
<1> QED
  BY <1>1, <1>2, <1>4, <1>5, <1>6 DEF OwnInv, Active, Mine

\* A run leaves its steps, or ends: its report and its session stay.
LEMMA TurnOwn ==
  ASSUME TypeInv, OwnInv, NEW r \in Runs, Active(r),
         NEW how \in {"cleanup", "ended", "raised"}, Turn(r, how),
         call'[r] = None, UNCHANGED <<results, session, owner>>
  PROVE  OwnInv'
<1>1. \A q \in Runs : q # r => phase'[q] = phase[q]
  BY DEF Turn, TypeInv, TypeOK
<1>2. \A q \in Runs : Active(q)' => q = r
  BY <1>1 DEF OwnInv, Active
<1>3. phase'[r] # "idle"
  BY DEF Turn, TypeInv, TypeOK
<1>4. ~ Calling(r, Bound \cup {"stop_session"})'
  BY DEF Calling
<1> QED
  BY <1>1, <1>2, <1>3, <1>4 DEF OwnInv, Active, Mine, Unstopped, Reported

LEMMA OwnStep ==
  ASSUME Serial, TypeInv, OwnInv, NEW r \in Runs, Step(r)
  PROVE  OwnInv'
<1>1. CASE Begin(r)
  <2>1. \A q \in Runs : ~ Active(q)
    BY <1>1 DEF Begin, Admitted, Active
  <2>2. \A q \in Runs : q # r => phase'[q] = phase[q]
    BY <1>1 DEF Begin, Turn, TypeInv, TypeOK
  <2>3. Mine(r) = {} /\ phase[r] = "idle"
    BY <1>1 DEF Begin, Admitted, OwnInv
  <2>4. UNCHANGED owner
    BY <1>1 DEF Begin, world
  <2>5. phase'[r] = "steps"
    BY <1>1 DEF Begin, Turn, TypeInv, TypeOK
  <2> QED
    BY <2>1, <2>2, <2>3, <2>4, <2>5 DEF OwnInv, Active, Mine
<1>2. CASE Skip(r)
  <2>1. \A q \in Runs : ~ Active(q)
    BY <1>2 DEF Skip, Admitted, Active
  <2>2. phase' = [phase EXCEPT ![r] = "ended"] /\ UNCHANGED owner
    BY <1>2 DEF Skip, Turn, world
  <2> QED
    BY <2>1, <2>2 DEF OwnInv, Active, Mine, TypeInv, TypeOK
<1>3. CASE StepsDone(r)
  BY <1>3, TurnOwn DEF StepsDone, Running, Active, executor, world
<1>4. CASE CleanupDone(r)
  BY <1>4, TurnOwn DEF CleanupDone, Running, Active, executor, world
<1>5. CASE ConsumedEmpty(r)
  BY <1>5, ReadyStep, ConcludeOwn DEF ConsumedEmpty, world, Verdicts
<1>6. CASE CannotCall(r)
  BY <1>6, ReadyStep, ConcludeOwn DEF CannotCall, Raised, executor, world, Verdicts
<1>7. CASE CallBound(r)
  BY <1>7, CallOwn DEF CallBound
<1>8. CASE CallAction(r)
  BY <1>8, CallOwn DEF CallAction
<1>9. CASE CallStart(r)
  <2>1. {"start_session"} \cap (Bound \cup {"stop_session"}) = {}
    BY DEF Bound
  <2> QED
    BY <1>9, <2>1, CallOwn DEF CallStart
<1>10. CASE CallStop(r)
  <2>1. CASE Raised(r)
    BY <1>10, <2>1, ReadyStep, ConcludeOwn DEF CallStop, Raised, executor, world, Verdicts
  <2>2. CASE ~ Raised(r)
    BY <1>10, <2>2, CallOwn DEF CallStop
  <2> QED
    BY <2>1, <2>2
<1>11. CASE Sleep(r)
  BY <1>11, ReadyStep, ConcludeOwn DEF Sleep, world, Verdicts
<1>12. CASE EvaluateAssertion(r)
  BY <1>12, ReadyStep, ConcludeOwn DEF EvaluateAssertion, world, Verdicts
<1>13. CASE ReturnStart(r)
  <2>1. CASE Raised(r)
    BY <1>13, <2>1, CallingStep, ConcludeOwn DEF ReturnStart, Raised, executor, world, Verdicts
  <2>2. CASE ~ Raised(r)
    BY <1>13, <2>2, CallingStep, StartedOwn DEF ReturnStart, Verdicts
  <2> QED
    BY <2>1, <2>2
<1>14. CASE ReturnFind(r)
  BY <1>14, CallingStep, ConcludeOwn DEF ReturnFind, Raised, executor, world, Verdicts
<1>15. CASE ReturnScroll(r)
  <2>1. CASE Turn(r, "raised") /\ call' = [call EXCEPT ![r] = None] /\ UNCHANGED results
    BY <1>15, <2>1, CallingStep, TurnOwn DEF ReturnScroll, world, TypeInv, TypeOK
  <2>2. CASE \E verdict \in {"passed", "failed"} : Conclude(r, verdict, None)
    BY <1>15, <2>2, CallingStep, ConcludeOwn DEF ReturnScroll, world, Verdicts
  <2> QED
    BY <1>15, <2>1, <2>2 DEF ReturnScroll
<1>16. CASE ReturnOther(r)
  BY <1>16, CallingStep, ConcludeOwn DEF ReturnOther, Raised, executor, world, Verdicts
<1>17. CASE ReturnStop(r)
  <2>1. CASE Raised(r)
    BY <1>17, <2>1, CallingStep, ConcludeOwn DEF ReturnStop, Raised, executor, world, Verdicts
  <2>2. CASE \E verdict \in {"passed", "with_errors"} :
               Conclude(r, verdict, None) /\ UNCHANGED owner
    <3>1. Current(r).kind = "stop_session"
      BY <1>17 DEF ReturnStop, Calling
    <3> QED
      BY <1>17, <2>2, <3>1, CallingStep, StoppedOwn DEF ReturnStop, Verdicts
  <2> QED
    BY <1>17, <2>1, <2>2 DEF ReturnStop
<1> QED
  BY <1>1, <1>2, <1>3, <1>4, <1>5, <1>6, <1>7, <1>8, <1>9, <1>10, <1>11,
     <1>12, <1>13, <1>14, <1>15, <1>16, <1>17 DEF Step

LEMMA OwnNext ==
  ASSUME Serial
  PROVE  TypeInv /\ OwnInv /\ [Next]_vars => OwnInv'
<1> SUFFICES ASSUME TypeInv, OwnInv, [Next]_vars PROVE OwnInv'
  OBVIOUS
<1>1. ASSUME NEW r \in Runs, Step(r) PROVE OwnInv'
  BY <1>1, OwnStep
<1>2. ASSUME NEW s \in Sessions, OtherStarts(s) PROVE OwnInv'
  <2>1. /\ owner[s] = None /\ owner' = [owner EXCEPT ![s] = Other]
        /\ UNCHANGED <<phase, doc, at, call, results, session>>
    BY <1>2 DEF OtherStarts, run, executor
  <2>2. \A r \in Runs : Mine(r)' = Mine(r)
    BY <2>1, NamesAssumption DEF Mine, TypeInv, TypeOK
  <2> QED
    BY <2>1, <2>2 DEF OwnInv, Active, Unstopped, Reported, Calling, Current, List
<1>3. ASSUME NEW s \in Sessions, Exits(s) PROVE OwnInv'
  BY <1>3 DEF Exits, run, executor, OwnInv, Active, Mine, Unstopped, Reported,
              Calling, Current, List
<1>4. CASE UNCHANGED vars
  BY <1>4 DEF vars, run, executor, world, OwnInv, Active, Mine, Unstopped, Reported,
              Calling, Current, List
<1> QED
  BY <1>1, <1>2, <1>3, <1>4 DEF Next

(***************************************************************************)
(* While the dispatcher keeps runs apart, no step between the start and    *)
(* the first stop of a run acts on a session that is not its own.          *)
(***************************************************************************)
THEOREM RunActsOnItsOwnSession ==
  ASSUME Serial
  PROVE  Spec => []OwnSession
<1>1. TypeInv /\ OwnInv => OwnSession
  BY DEF TypeInv, ShapeOK, OwnInv, OwnSession, Calling, Unstopped
<1> QED
  BY <1>1, ScenarioInitType, ScenarioNextType, OwnInitInv, OwnNext, PTL DEF Spec

-----------------------------------------------------------------------------
(***************************************************************************)
(* The nodes that actions are given, while the dispatcher keeps runs apart.*)
(* What an earlier run left among the outputs stays there: what has passed *)
(* in this run since its last start or stop has replaced it.               *)
(***************************************************************************)
FoundInv ==
  /\ \A r \in Runs : phase[r] = "idle" => results[r] = <<>>
  /\ \A r \in Runs : Active(r) =>
       /\ \A id \in Ids : Gave(r, id) => outputs[id] \in {session, "empty"}
       /\ Calling(r, Bound) => call[r].session = session
       /\ Calling(r, {"action"}) /\ Gave(r, Current(r).source) => call[r].node = session

\* What a run was given before it records the outcome of a step.
LEMMA GaveBefore ==
  ASSUME TypeInv, NEW r \in Runs, Active(r), at[r] <= Len(List(r)),
         NEW verdict \in Verdicts, NEW sid, Conclude(r, verdict, sid),
         NEW id \in Ids, Gave(r, id)'
  PROVE  /\ Current(r).kind \notin {"start_session", "stop_session"}
         /\ \/ Gave(r, id)
            \/ Current(r).id = id /\ Current(r).kind # "assert" /\ verdict = "passed"
<1> DEFINE old == results[r]
           record == [step |-> Current(r), verdict |-> verdict,
                      cleanup |-> phase[r] = "cleanup"]
           new == Append(old, record)
<1>1. old \in Seq(Records) /\ results'[r] = new
  BY DEF Conclude, TypeInv, TypeOK
<1>2. record \in Records
  BY CurrentStep DEF Records
<1>3. record.step = Current(r) /\ record.verdict = verdict
  OBVIOUS
<1> HIDE DEF old, record
<1>4. /\ Len(old) \in Nat /\ DOMAIN old = 1 .. Len(old)
      /\ DOMAIN new = 1 .. Len(old) + 1 /\ Len(new) = Len(old) + 1
      /\ \A i \in 1 .. Len(old) : new[i] = old[i]
      /\ new[Len(old) + 1] = record
  BY <1>1, <1>2, AppendProperties, LenProperties
<1> HIDE DEF new
<1>5. PICK i \in DOMAIN new :
        /\ \A j \in i .. Len(new) : new[j].step.kind \notin {"start_session", "stop_session"}
        /\ new[i].step.id = id /\ new[i].step.kind # "assert" /\ new[i].verdict = "passed"
  BY <1>1 DEF Gave, Recent
<1>6. new[Len(new)].step.kind \notin {"start_session", "stop_session"}
  BY <1>4, <1>5
<1>7. CASE i = Len(new)
  BY <1>3, <1>4, <1>5, <1>6, <1>7
<1>8. CASE i # Len(new)
  <2>1. i \in 1 .. Len(old)
    BY <1>4, <1>8
  <2>2. /\ \A j \in i .. Len(old) : old[j].step.kind \notin {"start_session", "stop_session"}
        /\ old[i].step.id = id /\ old[i].step.kind # "assert" /\ old[i].verdict = "passed"
    BY <1>4, <1>5, <2>1
  <2> QED
    BY <1>3, <1>4, <1>6, <2>1, <2>2 DEF Gave, Recent, old
<1> QED
  BY <1>7, <1>8

\* An outcome that replaces an output replaces it with nothing or with a node
\* of the session; what passes does.
LEMMA ConcludeFound ==
  ASSUME TypeInv, OwnInv, FoundInv, NEW r \in Runs, Active(r), at[r] <= Len(List(r)),
         NEW verdict \in Verdicts, NEW sid, Conclude(r, verdict, sid),
         session' = session \/ Current(r).kind \in {"start_session", "stop_session"},
         \A id \in Ids : outputs'[id] = outputs[id] \/ outputs'[id] \in {session', "empty"},
         (Current(r).kind \notin {"assert", "start_session", "stop_session"}
            /\ verdict = "passed") => outputs'[Current(r).id] \in {session', "empty"}
  PROVE  FoundInv'
<1>1. phase' = phase /\ doc' = doc /\ call' = [call EXCEPT ![r] = None]
  BY ConcludeType
<1>2. \A q \in Runs : q # r => results'[q] = results[q]
  BY DEF Conclude, TypeInv, TypeOK
<1>3. \A q \in Runs : Active(q)' => q = r
  BY <1>1 DEF OwnInv, Active
<1>4. ASSUME NEW q \in Runs, phase'[q] = "idle" PROVE results'[q] = <<>>
  BY <1>1, <1>2, <1>4 DEF FoundInv, Active
<1>5. \A kinds : ~ Calling(r, kinds)'
  BY <1>1 DEF Calling, TypeInv, TypeOK
<1>6. ASSUME NEW id \in Ids, Gave(r, id)' PROVE outputs'[id] \in {session', "empty"}
  BY <1>6, GaveBefore DEF FoundInv
<1> QED
  BY <1>3, <1>4, <1>5, <1>6 DEF FoundInv

\* Calling a use case: with the executor's session, and with what it holds.
LEMMA CallFound ==
  ASSUME TypeInv, OwnInv, FoundInv, NEW r \in Runs, NEW kinds, Ready(r, kinds),
         NEW s, NEW node, NEW sole, Call(r, s, node, sole),
         kinds \cap Bound # {} => s = session,
         Current(r).kind = "action" => SourceOutput(r) \in Sessions /\ node = SourceOutput(r)
  PROVE  FoundInv'
<1>1. Active(r) /\ Current(r) \in Steps /\ Current(r).kind \in kinds
  BY ReadyStep DEF Ready
<1>2. /\ UNCHANGED <<phase, doc, at, results, session, outputs>>
      /\ call' = [call EXCEPT ![r] = [session |-> s, node |-> node, sole |-> sole]]
  BY DEF Call, executor, world
<1>3. call'[r].session = s /\ call'[r].node = node
  BY <1>2 DEF TypeInv, TypeOK
<1>4. \A q \in Runs : Active(q)' => q = r
  BY <1>1, <1>2 DEF OwnInv, Active
<1>5. Current(r)' = Current(r) /\ \A id : Gave(r, id)' = Gave(r, id)
  BY <1>2 DEF Current, List, Gave, Recent
<1>6. Calling(r, Bound)' => s = session
  BY <1>1, <1>5 DEF Calling
<1>7. ASSUME Current(r).kind = "action", Gave(r, Current(r).source) PROVE node = session
  <2>1. Current(r).source \in Ids
    BY <1>1 DEF Steps
  <2>2. outputs[Current(r).source] \in {session, "empty"}
    BY <1>1, <1>7, <2>1 DEF FoundInv
  <2> QED
    BY <1>7, <2>2, NamesAssumption DEF SourceOutput
<1>8. Calling(r, {"action"})' /\ Gave(r, Current(r).source)' => node = session
  BY <1>5, <1>7 DEF Calling
<1> QED
  BY <1>1, <1>2, <1>3, <1>4, <1>5, <1>6, <1>8 DEF FoundInv, Active

\* A run leaves its steps, or ends, with no use case under way.
LEMMA TurnFound ==
  ASSUME TypeInv, OwnInv, FoundInv, NEW r \in Runs, Active(r),
         NEW how \in {"cleanup", "ended", "raised"}, Turn(r, how),
         call'[r] = None, UNCHANGED <<results, session, outputs>>
  PROVE  FoundInv'
<1>1. \A q \in Runs : q # r => phase'[q] = phase[q]
  BY DEF Turn, TypeInv, TypeOK
<1>2. \A q \in Runs : Active(q)' => q = r
  BY <1>1 DEF OwnInv, Active
<1>3. phase'[r] # "idle"
  BY DEF Turn, TypeInv, TypeOK
<1>4. \A kinds : ~ Calling(r, kinds)'
  BY DEF Calling
<1>5. \A id : Gave(r, id)' = Gave(r, id)
  BY DEF Gave, Recent
<1> QED
  BY <1>1, <1>2, <1>3, <1>4, <1>5 DEF FoundInv

LEMMA RaisedFound ==
  ASSUME TypeInv, OwnInv, FoundInv, NEW r \in Runs, Active(r), at[r] <= Len(List(r)),
         Raised(r)
  PROVE  FoundInv'
  BY ConcludeFound DEF Raised, executor, Verdicts

\* An outcome whose output is nothing, or a node of the session.
LEMMA OutputFound ==
  ASSUME TypeInv, OwnInv, FoundInv, NEW r \in Runs, Active(r), at[r] <= Len(List(r)),
         NEW verdict \in Verdicts, NEW sid, Conclude(r, verdict, sid),
         NEW what \in {session', "empty"}, Output(r, what),
         session' = session \/ Current(r).kind \in {"start_session", "stop_session"}
  PROVE  FoundInv'
<1>1. Current(r).id \in Ids
  BY CurrentStep DEF Steps
<1>2. outputs' = [outputs EXCEPT ![Current(r).id] = what]
  BY DEF Output
<1>3. outputs'[Current(r).id] = what
  BY <1>1, <1>2 DEF TypeInv, TypeOK
<1>4. \A id \in Ids : outputs'[id] = outputs[id] \/ outputs'[id] = what
  BY <1>2 DEF TypeInv, TypeOK
<1> QED
  BY <1>3, <1>4, ConcludeFound

LEMMA FoundStep ==
  ASSUME Serial, TypeInv, OwnInv, FoundInv, NEW r \in Runs, Step(r)
  PROVE  FoundInv'
<1>1. CASE Begin(r)
  <2>1. \A q \in Runs : ~ Active(q)
    BY <1>1 DEF Begin, Admitted, Active
  <2>2. phase' = [phase EXCEPT ![r] = "steps"] /\ UNCHANGED <<results, call>>
    BY <1>1 DEF Begin, Turn
  <2>3. results[r] = <<>> /\ call[r] = None
    BY <1>1, <2>1 DEF Begin, Admitted, FoundInv, TypeInv, ShapeOK
  <2>4. \A id : ~ Gave(r, id)'
    BY <2>2, <2>3 DEF Gave, Recent
  <2>5. \A kinds : ~ Calling(r, kinds)'
    BY <2>2, <2>3 DEF Calling
  <2>6. \A q \in Runs : Active(q)' => q = r
    BY <2>1, <2>2 DEF Active, TypeInv, TypeOK
  <2>7. \A q \in Runs : phase'[q] = "idle" => phase[q] = "idle"
    BY <2>2 DEF TypeInv, TypeOK
  <2> QED
    BY <2>2, <2>4, <2>5, <2>6, <2>7 DEF FoundInv
<1>2. CASE Skip(r)
  <2>1. \A q \in Runs : ~ Active(q)
    BY <1>2 DEF Skip, Admitted, Active
  <2>2. phase' = [phase EXCEPT ![r] = "ended"] /\ UNCHANGED results
    BY <1>2 DEF Skip, Turn
  <2>3. \A q \in Runs : ~ Active(q)'
    BY <2>1, <2>2 DEF Active, TypeInv, TypeOK
  <2>4. \A q \in Runs : phase'[q] = "idle" => phase[q] = "idle"
    BY <2>2 DEF TypeInv, TypeOK
  <2> QED
    BY <2>2, <2>3, <2>4 DEF FoundInv
<1>3. CASE StepsDone(r)
  BY <1>3, TurnFound DEF StepsDone, Running, Active, executor
<1>4. CASE CleanupDone(r)
  BY <1>4, TurnFound DEF CleanupDone, Running, Active, executor
<1>5. CASE ConsumedEmpty(r)
  BY <1>5, ReadyStep, OutputFound DEF ConsumedEmpty, Verdicts
<1>6. CASE CannotCall(r)
  BY <1>6, ReadyStep, RaisedFound DEF CannotCall
<1>7. CASE CallBound(r)
  BY <1>7, CallFound DEF CallBound, Ready
<1>8. CASE CallAction(r)
  BY <1>8, CallFound DEF CallAction
<1>9. CASE CallStart(r)
  <2>1. {"start_session"} \cap Bound = {}
    BY DEF Bound
  <2>2. Current(r).kind = "start_session"
    BY <1>9 DEF CallStart, Ready
  <2> QED
    BY <1>9, <2>1, <2>2, CallFound DEF CallStart
<1>10. CASE CallStop(r)
  <2>1. CASE Raised(r)
    BY <1>10, <2>1, ReadyStep, RaisedFound DEF CallStop
  <2>2. CASE ~ Raised(r)
    BY <1>10, <2>2, CallFound DEF CallStop, Ready, Bound
  <2> QED
    BY <2>1, <2>2
<1>11. CASE Sleep(r)
  BY <1>11, ReadyStep, OutputFound DEF Sleep, Verdicts
<1>12. CASE EvaluateAssertion(r)
  <2>1. PICK verdict \in {"passed", "failed"} : Conclude(r, verdict, None)
    BY <1>12 DEF EvaluateAssertion
  <2>2. Current(r).kind = "assert" /\ session' = session
    BY <1>12 DEF EvaluateAssertion, Ready
  <2>3. CASE Output(r, "empty")
    BY <1>12, <2>1, <2>2, <2>3, ReadyStep, OutputFound DEF EvaluateAssertion, Verdicts
  <2>4. CASE UNCHANGED outputs
    BY <1>12, <2>1, <2>2, <2>4, ReadyStep, ConcludeFound DEF EvaluateAssertion, Verdicts
  <2> QED
    BY <1>12, <2>3, <2>4 DEF EvaluateAssertion
<1>13. CASE ReturnStart(r)
  <2>1. CASE Raised(r)
    BY <1>13, <2>1, CallingStep, RaisedFound DEF ReturnStart
  <2>2. CASE ~ Raised(r)
    <3>1. Current(r).kind = "start_session"
      BY <1>13 DEF ReturnStart, Calling
    <3> QED
      BY <1>13, <2>2, <3>1, CallingStep, OutputFound DEF ReturnStart, Verdicts
  <2> QED
    BY <2>1, <2>2
<1>14. CASE ReturnFind(r)
  <2>1. CASE Raised(r)
    BY <1>14, <2>1, CallingStep, RaisedFound DEF ReturnFind
  <2>2. CASE ~ Raised(r)
    <3>1. call[r].session = session
      BY <1>14, CallingStep DEF ReturnFind, Calling, Bound, FoundInv
    <3>2. PICK verdict \in {"passed", "failed"}, what \in {session, "empty"} :
            Conclude(r, verdict, None) /\ Output(r, what) /\ session' = session
      BY <1>14, <2>2, <3>1 DEF ReturnFind
    <3> QED
      BY <1>14, <3>2, CallingStep, OutputFound DEF ReturnFind, Verdicts
  <2> QED
    BY <2>1, <2>2
<1>15. CASE ReturnScroll(r)
  <2>1. CASE Turn(r, "raised") /\ call' = [call EXCEPT ![r] = None]
               /\ UNCHANGED <<results, outputs>>
    BY <1>15, <2>1, CallingStep, TurnFound DEF ReturnScroll, TypeInv, TypeOK
  <2>2. CASE \E verdict \in {"passed", "failed"}, what \in {call[r].session, "empty"} :
               Conclude(r, verdict, None) /\ Output(r, what)
    <3>1. call[r].session = session
      BY <1>15, CallingStep DEF ReturnScroll, Calling, Bound, FoundInv
    <3> QED
      BY <1>15, <2>2, <3>1, CallingStep, OutputFound DEF ReturnScroll, Verdicts
  <2> QED
    BY <1>15, <2>1, <2>2 DEF ReturnScroll
<1>16. CASE ReturnOther(r)
  <2>1. CASE Raised(r)
    BY <1>16, <2>1, CallingStep, RaisedFound DEF ReturnOther
  <2>2. CASE ~ Raised(r)
    BY <1>16, <2>2, CallingStep, OutputFound DEF ReturnOther, Verdicts
  <2> QED
    BY <2>1, <2>2
<1>17. CASE ReturnStop(r)
  <2>1. CASE Raised(r)
    BY <1>17, <2>1, CallingStep, RaisedFound DEF ReturnStop
  <2>2. CASE ~ Raised(r)
    <3>1. Current(r).kind = "stop_session"
      BY <1>17 DEF ReturnStop, Calling
    <3> QED
      BY <1>17, <2>2, <3>1, CallingStep, OutputFound DEF ReturnStop, Verdicts
  <2> QED
    BY <2>1, <2>2
<1> QED
  BY <1>1, <1>2, <1>3, <1>4, <1>5, <1>6, <1>7, <1>8, <1>9, <1>10, <1>11,
     <1>12, <1>13, <1>14, <1>15, <1>16, <1>17 DEF Step

LEMMA FoundNext ==
  ASSUME Serial
  PROVE  TypeInv /\ OwnInv /\ FoundInv /\ [Next]_vars => FoundInv'
<1> SUFFICES ASSUME TypeInv, OwnInv, FoundInv, [Next]_vars PROVE FoundInv'
  OBVIOUS
<1>1. ASSUME NEW r \in Runs, Step(r) PROVE FoundInv'
  BY <1>1, FoundStep
<1>2. ASSUME UNCHANGED <<run, executor>> PROVE FoundInv'
  BY <1>2 DEF run, executor, FoundInv, Active, Gave, Recent, Calling, Current, List
<1> QED
  BY <1>1, <1>2 DEF Next, OtherStarts, Exits, vars

(***************************************************************************)
(* While the dispatcher keeps runs apart, an action whose source passed in *)
(* its own run, with no start or stop since, is given a node of the        *)
(* session it acts on: nothing that an earlier run left takes its place.   *)
(***************************************************************************)
THEOREM ActionsUseWhatTheyFound ==
  ASSUME Serial
  PROVE  Spec => []ActsOnWhatItFound
<1>1. Init => FoundInv
  BY DEF Init, FoundInv, Active
<1>2. TypeInv /\ FoundInv => ActsOnWhatItFound
  BY DEF TypeInv, ShapeOK, FoundInv, ActsOnWhatItFound, Calling, Bound
<1> QED
  BY <1>1, <1>2, ScenarioInitType, ScenarioNextType, OwnInitInv, OwnNext, FoundNext,
     PTL DEF Spec

-----------------------------------------------------------------------------
(***************************************************************************)
(* What a run leaves alive, while the dispatcher keeps runs apart.  The    *)
(* executor still knows the session of the run, or the session is gone, or *)
(* the report of the run tells of a stop that went wrong.                  *)
(***************************************************************************)
Settled(r) ==
  \/ Mine(r) \cap alive = {}
  \/ \E i \in Reported(r, "stop_session") : results[r][i].verdict # "passed"

KnownOrSettled(r) ==
  /\ phase[r] = "steps" =>
       \A i \in DOMAIN doc[r].steps : doc[r].steps[i].kind = "start_session" => i < at[r]
  /\ \A s, t \in Mine(r) : s = t
  /\ Active(r) => session \in Mine(r) \/ Settled(r)
  /\ (phase[r] = "cleanup" /\ \E k \in DOMAIN doc[r].cleanup :
        k < at[r] /\ doc[r].cleanup[k].kind = "stop_session") => Settled(r)
  /\ phase[r] = "ended" => Settled(r)
  /\ Calling(r, {"stop_session"}) /\ session \in Mine(r) => call[r].session = session

LeakAt(r) ==
  Mine(r) # {} => /\ phase[r] = "steps" => started[r]
                  /\ Disciplined(doc[r]) => KnownOrSettled(r)

LeakInv == \A r \in Runs : LeakAt(r)

\* A run that does nothing keeps what it has, while no session comes back.
LEMMA LeakFrame ==
  ASSUME NEW r \in Runs, LeakAt(r), ~ Active(r),
         phase'[r] = phase[r] \/ phase'[r] \notin {"steps", "cleanup", "ended"},
         doc'[r] = doc[r], results'[r] = results[r], call'[r] = None,
         Mine(r)' = Mine(r), Mine(r) \cap alive' \subseteq alive
  PROVE  LeakAt(r)'
<1>1. ~ Active(r)' /\ (phase'[r] = "ended" => phase[r] = "ended")
  BY DEF Active
<1>2. Settled(r) => Settled(r)'
  BY DEF Settled, Reported
<1>3. ~ Calling(r, {"stop_session"})'
  BY DEF Calling
<1> QED
  BY <1>1, <1>2, <1>3 DEF LeakAt, KnownOrSettled, Active

\* A step adds its own outcome to the report, and nothing else.
LEMMA ConcludeReport ==
  ASSUME TypeInv, NEW r \in Runs, Active(r), at[r] <= Len(List(r)),
         NEW verdict \in Verdicts, NEW sid, Conclude(r, verdict, sid)
  PROVE  /\ \A i \in Reported(r, "stop_session") :
              i \in Reported(r, "stop_session")' /\ results'[r][i] = results[r][i]
         /\ Current(r).kind = "stop_session" =>
              \E i \in Reported(r, "stop_session")' : results'[r][i].verdict = verdict
<1> DEFINE old == results[r]
           record == [step |-> Current(r), verdict |-> verdict,
                      cleanup |-> phase[r] = "cleanup"]
           new == Append(old, record)
<1>1. old \in Seq(Records) /\ results'[r] = new
  BY DEF Conclude, TypeInv, TypeOK
<1>2. record \in Records
  BY CurrentStep DEF Records
<1>3. record.step = Current(r) /\ record.verdict = verdict
  OBVIOUS
<1> HIDE DEF old, record
<1>4. /\ Len(old) \in Nat /\ DOMAIN old = 1 .. Len(old)
      /\ DOMAIN new = 1 .. Len(old) + 1
      /\ \A i \in 1 .. Len(old) : new[i] = old[i]
      /\ new[Len(old) + 1] = record
  BY <1>1, <1>2, AppendProperties, LenProperties
<1> HIDE DEF new
<1>5. ASSUME NEW i \in Reported(r, "stop_session")
      PROVE  i \in Reported(r, "stop_session")' /\ results'[r][i] = results[r][i]
  <2>1. i \in 1 .. Len(old) /\ old[i].step.kind = "stop_session"
    BY <1>4 DEF Reported, old
  <2> QED
    BY <1>1, <1>4, <2>1 DEF Reported, old
<1>6. Len(old) + 1 \in DOMAIN new
  BY <1>4
<1> QED
  BY <1>1, <1>3, <1>4, <1>5, <1>6 DEF Reported

\* Where a step leaves a run: behind that step, with the same document.
LEMMA ConcludeMoves ==
  ASSUME TypeInv, NEW r \in Runs, Active(r), at[r] <= Len(List(r)),
         NEW verdict \in Verdicts, NEW sid, Conclude(r, verdict, sid)
  PROVE  /\ phase' = phase /\ doc' = doc
         /\ call'[r] = None /\ at'[r] > at[r]
         /\ phase[r] = "cleanup" => at'[r] = at[r] + 1
         /\ started[r] => started'[r]
         /\ (phase[r] = "steps" /\ Current(r).kind = "start_session") => started'[r]
<1>1. doc[r] \in Scenarios /\ at[r] \in Nat \ {0}
  BY DEF TypeInv, TypeOK, ShapeOK
<1>2. List(r) \in Seq(Steps)
  BY <1>1, ScenariosAssumption DEF Valid, List
<1>3. Len(List(r)) \in Nat
  BY <1>2, LenProperties
<1>4. CASE phase[r] = "steps"
  <2>1. List(r) = doc[r].steps
    BY <1>4 DEF List
  <2>2. at'[r] = IF verdict = "failed" THEN Len(doc[r].steps) + 1 ELSE at[r] + 1
    BY <1>4 DEF Conclude, TypeInv, TypeOK
  <2>3. started'[r] = (started[r] \/ sid # None \/ Current(r).kind = "start_session")
    BY <1>4 DEF Conclude, TypeInv, TypeOK
  <2>4. at'[r] > at[r]
    BY <1>1, <1>3, <2>1, <2>2
  <2>5. phase' = phase /\ doc' = doc /\ call'[r] = None
    BY DEF Conclude, TypeInv, TypeOK
  <2> QED
    BY <1>4, <2>3, <2>4, <2>5
<1>5. CASE phase[r] = "cleanup"
  BY <1>1, <1>5 DEF Conclude, TypeInv, TypeOK
<1> QED
  BY <1>4, <1>5 DEF Active

\* An outcome that starts nothing; a stop that passed has stopped the session
\* that the executor knew.
LEMMA ConcludeLeak ==
  ASSUME TypeInv, OwnInv, LeakInv, NEW r \in Runs, Active(r), at[r] <= Len(List(r)),
         NEW verdict \in Verdicts, NEW sid, Conclude(r, verdict, sid),
         UNCHANGED owner, alive' \subseteq alive,
         session' = session \/ Current(r).kind = "stop_session",
         Current(r).kind = "stop_session" =>
           verdict # "passed" \/ (session \in Mine(r) => session \notin alive'
                                                         \/ ~ Disciplined(doc[r]))
  PROVE  LeakInv'
<1>1. /\ phase' = phase /\ doc' = doc /\ call'[r] = None /\ at'[r] > at[r]
      /\ phase[r] = "cleanup" => at'[r] = at[r] + 1
      /\ started[r] => started'[r]
  BY ConcludeMoves
<1>2. \A q \in Runs : q # r => call'[q] = call[q] /\ results'[q] = results[q]
  BY DEF Conclude, TypeInv, TypeOK
<1>3. \A q \in Runs : Mine(q)' = Mine(q)
  BY DEF Mine
<1>4. ASSUME NEW q \in Runs, q # r PROVE LeakAt(q)'
  <2>1. ~ Active(q)
    BY <1>4 DEF OwnInv
  <2>2. call[q] = None
    BY <2>1 DEF TypeInv, ShapeOK
  <2> QED
    BY <1>1, <1>2, <1>3, <1>4, <2>1, <2>2, LeakFrame DEF LeakInv
<1>5. ASSUME Mine(r) # {}, Disciplined(doc[r]) PROVE KnownOrSettled(r)'
  <2>1. KnownOrSettled(r)
    BY <1>5 DEF LeakInv, LeakAt
  <2>2. at[r] \in Nat /\ at'[r] \in Nat
    BY ConcludeType DEF TypeInv, TypeOK
  <2>3. Settled(r) => Settled(r)'
    BY <1>3, ConcludeReport DEF Settled
  <2>4. Current(r).kind = "stop_session" => Settled(r)'
    <3> SUFFICES ASSUME Current(r).kind = "stop_session" PROVE Settled(r)'
      OBVIOUS
    <3>1. CASE verdict # "passed"
      BY <3>1, ConcludeReport DEF Settled
    <3>2. CASE verdict = "passed" /\ session \in Mine(r)
      <4>1. session \notin alive' /\ \A s \in Mine(r) : s = session
        BY <1>5, <2>1, <3>2 DEF KnownOrSettled
      <4> QED
        BY <1>3, <4>1 DEF Settled
    <3>3. CASE session \notin Mine(r)
      BY <2>1, <2>3, <3>3 DEF KnownOrSettled
    <3> QED
      BY <3>1, <3>2, <3>3
  <2>5. session' \in Mine(r)' \/ Settled(r)'
    BY <1>3, <2>1, <2>3, <2>4 DEF KnownOrSettled
  <2>6. ASSUME phase[r] = "cleanup", NEW k \in DOMAIN doc[r].cleanup, k < at'[r],
               doc[r].cleanup[k].kind = "stop_session"
        PROVE  Settled(r)'
    <3>1. doc[r].cleanup \in Seq(Steps)
      BY ScenariosAssumption DEF TypeInv, ShapeOK, Valid
    <3>2. k \in Nat
      BY <2>6, <3>1, LenProperties
    <3>3. CASE k < at[r]
      BY <2>1, <2>3, <2>6, <3>3 DEF KnownOrSettled
    <3>4. CASE k = at[r]
      BY <2>4, <2>6, <3>4 DEF Current, List
    <3> QED
      BY <1>1, <2>2, <2>6, <3>2, <3>3, <3>4
  <2>7. ASSUME phase[r] = "steps", NEW i \in DOMAIN doc[r].steps,
               doc[r].steps[i].kind = "start_session"
        PROVE  i < at'[r]
    <3>1. doc[r].steps \in Seq(Steps)
      BY ScenariosAssumption DEF TypeInv, ShapeOK, Valid
    <3>2. i \in Nat
      BY <2>7, <3>1, LenProperties
    <3> QED
      BY <1>1, <2>1, <2>2, <2>7, <3>2 DEF KnownOrSettled
  <2>8. ~ Calling(r, {"stop_session"})'
    BY <1>1 DEF Calling
  <2> QED
    BY <1>1, <1>3, <2>1, <2>5, <2>6, <2>7, <2>8 DEF KnownOrSettled, Active
<1>6. LeakAt(r)'
  BY <1>1, <1>3, <1>5 DEF LeakInv, LeakAt
<1> QED
  BY <1>4, <1>6 DEF LeakInv

\* A start, the only one of its document, gives the run its only session.
LEMMA StartedLeak ==
  ASSUME TypeInv, OwnInv, LeakInv, NEW r \in Runs, Active(r), at[r] <= Len(List(r)),
         Current(r).kind = "start_session",
         NEW s \in Sessions, owner[s] = None, owner' = [owner EXCEPT ![s] = r],
         alive' = alive \cup {s}, session' = s, Conclude(r, "passed", s)
  PROVE  LeakInv'
<1>1. /\ phase' = phase /\ doc' = doc /\ call'[r] = None /\ at'[r] > at[r]
      /\ started[r] => started'[r]
      /\ (phase[r] = "steps" /\ Current(r).kind = "start_session") => started'[r]
  BY ConcludeMoves DEF Verdicts
<1>2. \A q \in Runs : q # r => call'[q] = call[q] /\ results'[q] = results[q]
  BY DEF Conclude, TypeInv, TypeOK
<1>3. Mine(r)' = Mine(r) \cup {s}
  BY DEF Mine, TypeInv, TypeOK
<1>4. ASSUME NEW q \in Runs, q # r PROVE LeakAt(q)'
  <2>1. ~ Active(q)
    BY <1>4 DEF OwnInv
  <2>2. call[q] = None
    BY <2>1 DEF TypeInv, ShapeOK
  <2>3. Mine(q)' = Mine(q) /\ s \notin Mine(q)
    BY <1>4, NamesAssumption DEF Mine, TypeInv, TypeOK
  <2> QED
    BY <1>1, <1>2, <1>4, <2>1, <2>2, <2>3, LeakFrame DEF LeakInv
<1>5. phase'[r] = "steps" => started'[r]
  BY <1>1
<1>6. ASSUME Disciplined(doc[r]) PROVE KnownOrSettled(r)'
  <2>1. doc[r].steps \in Seq(Steps) /\ doc[r].cleanup \in Seq(Steps)
    BY ScenariosAssumption DEF TypeInv, ShapeOK, Valid
  <2>2. phase[r] = "steps" /\ at[r] \in DOMAIN doc[r].steps
    <3>1. at[r] \in DOMAIN List(r)
      BY CurrentDomain
    <3>2. phase[r] # "cleanup"
      BY <1>6, <3>1 DEF Disciplined, Has, Current, List
    <3> QED
      BY <3>1, <3>2 DEF Active, List
  <2>3. PICK k : {i \in DOMAIN doc[r].steps : doc[r].steps[i].kind = "start_session"} = {k}
    <3>1. IsFiniteSet(DOMAIN doc[r].steps)
      BY <2>1, LenProperties, FS_Interval
    <3>2. IsFiniteSet({i \in DOMAIN doc[r].steps : doc[r].steps[i].kind = "start_session"})
      BY <3>1, FS_Subset
    <3> QED
      BY <1>6, <3>2, FS_Singleton DEF Disciplined
  <2>4. \A i \in DOMAIN doc[r].steps : doc[r].steps[i].kind = "start_session" => i = at[r]
    BY <2>2, <2>3 DEF Current, List
  <2>5. Mine(r) = {}
    <3> SUFFICES ASSUME Mine(r) # {} PROVE FALSE
      OBVIOUS
    <3>1. at[r] < at[r]
      BY <1>6, <2>2 DEF LeakInv, LeakAt, KnownOrSettled, Current, List
    <3> QED
      BY <3>1 DEF TypeInv, TypeOK
  <2>6. Mine(r)' = {s} /\ session' \in Mine(r)'
    BY <1>3, <2>5
  <2>7. \A i \in DOMAIN doc[r].steps : doc[r].steps[i].kind = "start_session" => i < at'[r]
    <3>1. at[r] < at'[r]
      BY <1>1, ConcludeType DEF TypeInv, TypeOK, Verdicts
    <3> QED
      BY <2>4, <3>1
  <2>8. ~ Calling(r, {"stop_session"})'
    BY <1>1 DEF Calling
  <2> QED
    BY <1>1, <2>2, <2>6, <2>7, <2>8 DEF KnownOrSettled
<1>7. LeakAt(r)'
  BY <1>1, <1>5, <1>6 DEF LeakAt
<1> QED
  BY <1>4, <1>7 DEF LeakInv

LEMMA CallLeak ==
  ASSUME TypeInv, OwnInv, LeakInv, NEW r \in Runs, NEW kinds, Ready(r, kinds),
         NEW s, NEW node, NEW sole, Call(r, s, node, sole),
         "stop_session" \in kinds => s = session \/ session = None
  PROVE  LeakInv'
<1>1. /\ UNCHANGED <<phase, doc, at, started, results, session, owner, alive>>
      /\ call' = [call EXCEPT ![r] = [session |-> s, node |-> node, sole |-> sole]]
  BY DEF Call, executor, world
<1>2. \A q \in Runs : /\ Mine(q)' = Mine(q) /\ Settled(q)' = Settled(q)
                      /\ Active(q)' = Active(q) /\ Current(q)' = Current(q)
  BY <1>1 DEF Mine, Settled, Reported, Active, Current, List
<1>3. call'[r].session = s /\ \A q \in Runs : q # r => call'[q] = call[q]
  BY <1>1 DEF TypeInv, TypeOK
<1>4. Calling(r, {"stop_session"})' /\ session \in Mine(r) => s = session
  BY <1>2, NamesAssumption DEF Calling, Ready, Mine
<1>5. ASSUME NEW q \in Runs, KnownOrSettled(q) PROVE KnownOrSettled(q)'
  BY <1>1, <1>2, <1>3, <1>4, <1>5 DEF KnownOrSettled, Calling
<1> QED
  BY <1>1, <1>2, <1>5 DEF LeakInv, LeakAt

\* A run leaves its steps for its cleanup, or ends settled, or is raised.
LEMMA TurnLeak ==
  ASSUME TypeInv, OwnInv, LeakInv, NEW r \in Runs, Active(r),
         NEW how \in {"cleanup", "ended", "raised"}, Turn(r, how), call'[r] = None,
         \A q \in Runs : q # r => call'[q] = call[q],
         UNCHANGED <<doc, results, session, owner, alive>>,
         how = "cleanup" => at'[r] = 1,
         (how = "ended" /\ Mine(r) # {} /\ Disciplined(doc[r])) => Settled(r)
  PROVE  LeakInv'
<1>1. phase'[r] = how /\ \A q \in Runs : q # r => phase'[q] = phase[q]
  BY DEF Turn, TypeInv, TypeOK
<1>2. \A q \in Runs : Mine(q)' = Mine(q) /\ Settled(q)' = Settled(q)
  BY DEF Mine, Settled, Reported
<1>3. ASSUME NEW q \in Runs, q # r PROVE LeakAt(q)'
  <2>1. ~ Active(q)
    BY <1>3 DEF OwnInv
  <2>2. call[q] = None
    BY <2>1 DEF TypeInv, ShapeOK
  <2> QED
    BY <1>1, <1>2, <1>3, <2>1, <2>2, LeakFrame DEF LeakInv
<1>4. ASSUME Mine(r) # {}, Disciplined(doc[r]) PROVE KnownOrSettled(r)'
  <2>1. KnownOrSettled(r)
    BY <1>4 DEF LeakInv, LeakAt
  <2>2. phase'[r] = "cleanup" => \A k \in DOMAIN doc[r].cleanup : ~ (k < at'[r])
    <3>1. doc[r].cleanup \in Seq(Steps)
      BY ScenariosAssumption DEF TypeInv, ShapeOK, Valid
    <3> QED
      BY <1>1, <3>1, LenProperties
  <2>3. ~ Calling(r, {"stop_session"})'
    BY DEF Calling
  <2> QED
    BY <1>1, <1>2, <1>4, <2>1, <2>2, <2>3 DEF KnownOrSettled, Active
<1>5. LeakAt(r)'
  BY <1>1, <1>2, <1>4 DEF LeakAt
<1> QED
  BY <1>3, <1>5 DEF LeakInv

LEMMA RaisedLeak ==
  ASSUME TypeInv, OwnInv, LeakInv, NEW r \in Runs, Active(r), at[r] <= Len(List(r)),
         Raised(r)
  PROVE  LeakInv'
  BY ConcludeLeak DEF Raised, executor, world, Verdicts

\* An outcome that is not that of a stop, and touches nobody's session.
LEMMA QuietLeak ==
  ASSUME TypeInv, OwnInv, LeakInv, NEW r \in Runs, Active(r), at[r] <= Len(List(r)),
         NEW verdict \in Verdicts, NEW sid, Conclude(r, verdict, sid),
         UNCHANGED <<session, owner, alive>>, Current(r).kind # "stop_session"
  PROVE  LeakInv'
  BY ConcludeLeak

LEMMA LeakStep ==
  ASSUME Serial, TypeInv, OwnInv, LeakInv, NEW r \in Runs, Step(r)
  PROVE  LeakInv'
<1>1. CASE Begin(r) \/ Skip(r)
  <2>1. PICK how \in {"steps", "ended"} :
          phase' = [phase EXCEPT ![r] = how] /\ phase[r] = "idle"
          /\ \A q \in Runs : ~ Active(q)
    BY <1>1 DEF Begin, Skip, Admitted, Turn, Active
  <2>2. UNCHANGED <<call, results, owner, alive>> /\ \A q \in Runs : q # r => doc'[q] = doc[q]
    BY <1>1 DEF Begin, Skip, world, TypeInv, TypeOK
  <2>3. \A q \in Runs : Mine(q)' = Mine(q) /\ (q # r => phase'[q] = phase[q])
    BY <2>1, <2>2 DEF Mine, TypeInv, TypeOK
  <2>4. Mine(r) = {}
    BY <2>1 DEF OwnInv
  <2>5. ASSUME NEW q \in Runs, q # r PROVE LeakAt(q)'
    <3>1. ~ Active(q) /\ call[q] = None
      BY <2>1 DEF TypeInv, ShapeOK
    <3> QED
      BY <2>2, <2>3, <2>5, <3>1, LeakFrame DEF LeakInv
  <2> QED
    BY <2>3, <2>4, <2>5 DEF LeakInv, LeakAt
<1>2. CASE StepsDone(r)
  <2>1. phase[r] = "steps" /\ Active(r) /\ call[r] = None
    BY <1>2 DEF StepsDone, Running, Active
  <2>2. ASSUME ~ started[r] PROVE Mine(r) = {}
    BY <2>1, <2>2 DEF LeakInv, LeakAt
  <2>3. at'[r] = 1
    BY <1>2 DEF StepsDone, TypeInv, TypeOK
  <2>4. UNCHANGED <<doc, call, results, session, owner, alive>>
    BY <1>2 DEF StepsDone, executor, world
  <2>5. CASE Turn(r, "cleanup")
    BY <2>1, <2>3, <2>4, <2>5, TurnLeak
  <2>6. CASE Turn(r, "ended") /\ ~ started[r]
    BY <2>1, <2>2, <2>4, <2>6, TurnLeak
  <2> QED
    BY <1>2, <2>5, <2>6 DEF StepsDone
<1>3. CASE CleanupDone(r)
  <2>1. phase[r] = "cleanup" /\ Active(r) /\ call[r] = None /\ Turn(r, "ended")
    BY <1>3 DEF CleanupDone, Running, Active
  <2>2. ASSUME Mine(r) # {}, Disciplined(doc[r]) PROVE Settled(r)
    <3>1. PICK k \in DOMAIN doc[r].cleanup : doc[r].cleanup[k].kind = "stop_session"
      BY <2>2 DEF Disciplined, Has
    <3>2. doc[r].cleanup \in Seq(Steps)
      BY <2>1, ScenariosAssumption DEF TypeInv, ShapeOK, Valid
    <3>3. k < at[r]
      BY <1>3, <3>1, <3>2, LenProperties DEF CleanupDone, TypeInv, TypeOK
    <3> QED
      BY <2>1, <2>2, <3>1, <3>3 DEF LeakInv, LeakAt, KnownOrSettled
  <2>3. UNCHANGED <<doc, call, results, session, owner, alive>>
    BY <1>3 DEF CleanupDone, executor, world
  <2> QED
    BY <2>1, <2>2, <2>3, TurnLeak
<1>4. CASE ConsumedEmpty(r)
  BY <1>4, ReadyStep, QuietLeak DEF ConsumedEmpty, Ready, world, Verdicts
<1>5. CASE CannotCall(r)
  BY <1>5, ReadyStep, RaisedLeak DEF CannotCall
<1>6. CASE CallBound(r)
  BY <1>6, CallLeak DEF CallBound
<1>7. CASE CallAction(r)
  BY <1>7, CallLeak DEF CallAction
<1>8. CASE CallStart(r)
  <2>1. "stop_session" \notin {"start_session"}
    OBVIOUS
  <2> QED
    BY <1>8, <2>1, CallLeak DEF CallStart
<1>9. CASE CallStop(r)
  <2>1. CASE Raised(r)
    BY <1>9, <2>1, ReadyStep, RaisedLeak DEF CallStop
  <2>2. CASE ~ Raised(r)
    BY <1>9, <2>2, CallLeak DEF CallStop
  <2> QED
    BY <2>1, <2>2
<1>10. CASE Sleep(r)
  BY <1>10, ReadyStep, QuietLeak DEF Sleep, Ready, world, Verdicts
<1>11. CASE EvaluateAssertion(r)
  BY <1>11, ReadyStep, QuietLeak DEF EvaluateAssertion, Ready, world, Verdicts
<1>12. CASE ReturnStart(r)
  <2>1. CASE Raised(r)
    BY <1>12, <2>1, CallingStep, RaisedLeak DEF ReturnStart
  <2>2. CASE ~ Raised(r)
    BY <1>12, <2>2, CallingStep, StartedLeak DEF ReturnStart, Calling
  <2> QED
    BY <2>1, <2>2
<1>13. CASE ReturnFind(r)
  <2>1. CASE Raised(r)
    BY <1>13, <2>1, CallingStep, RaisedLeak DEF ReturnFind
  <2>2. CASE ~ Raised(r)
    BY <1>13, <2>2, CallingStep, QuietLeak DEF ReturnFind, Calling, world, Verdicts
  <2> QED
    BY <2>1, <2>2
<1>14. CASE ReturnScroll(r)
  <2>1. CASE Turn(r, "raised") /\ call' = [call EXCEPT ![r] = None]
               /\ UNCHANGED <<doc, results>>
    <3>1. call'[r] = None /\ \A q \in Runs : q # r => call'[q] = call[q]
      BY <2>1 DEF TypeInv, TypeOK
    <3> QED
      BY <1>14, <2>1, <3>1, CallingStep, TurnLeak DEF ReturnScroll, world
  <2>2. CASE \E verdict \in {"passed", "failed"} : Conclude(r, verdict, None)
    BY <1>14, <2>2, CallingStep, QuietLeak DEF ReturnScroll, Calling, world, Verdicts
  <2> QED
    BY <1>14, <2>1, <2>2 DEF ReturnScroll
<1>15. CASE ReturnOther(r)
  <2>1. CASE Raised(r)
    BY <1>15, <2>1, CallingStep, RaisedLeak DEF ReturnOther
  <2>2. CASE ~ Raised(r)
    BY <1>15, <2>2, CallingStep, QuietLeak DEF ReturnOther, Calling, world, Verdicts
  <2> QED
    BY <2>1, <2>2
<1>16. CASE ReturnStop(r)
  <2>1. Current(r).kind = "stop_session"
    BY <1>16 DEF ReturnStop, Calling
  <2>2. CASE Raised(r)
    BY <1>16, <2>2, CallingStep, RaisedLeak DEF ReturnStop
  <2>3. CASE Conclude(r, "passed", None) /\ alive' = alive \ {call[r].session}
               /\ UNCHANGED owner
    <3>1. ASSUME session \in Mine(r), Disciplined(doc[r]) PROVE call[r].session = session
      BY <1>16, <3>1 DEF ReturnStop, LeakInv, LeakAt, KnownOrSettled
    <3> QED
      BY <1>16, <2>1, <2>3, <3>1, CallingStep, ConcludeLeak DEF ReturnStop, Verdicts
  <2>4. CASE Conclude(r, "with_errors", None) /\ UNCHANGED <<alive, owner>>
    BY <1>16, <2>1, <2>4, CallingStep, ConcludeLeak DEF ReturnStop, Verdicts
  <2> QED
    BY <1>16, <2>2, <2>3, <2>4 DEF ReturnStop
<1> QED
  BY <1>1, <1>2, <1>3, <1>4, <1>5, <1>6, <1>7, <1>8, <1>9, <1>10, <1>11,
     <1>12, <1>13, <1>14, <1>15, <1>16 DEF Step

LEMMA LeakNext ==
  ASSUME Serial
  PROVE  TypeInv /\ OwnInv /\ LeakInv /\ [Next]_vars => LeakInv'
<1> SUFFICES ASSUME TypeInv, OwnInv, LeakInv, [Next]_vars PROVE LeakInv'
  OBVIOUS
<1>1. ASSUME NEW r \in Runs, Step(r) PROVE LeakInv'
  BY <1>1, LeakStep
<1>2. ASSUME UNCHANGED <<run, executor>>, \A r \in Runs : Mine(r)' = Mine(r),
             \A r \in Runs : Mine(r) \cap alive' \subseteq alive
      PROVE  LeakInv'
  <2>1. \A r \in Runs : Settled(r) => Settled(r)'
    BY <1>2 DEF run, Settled, Reported
  <2>2. \A r \in Runs : KnownOrSettled(r) => KnownOrSettled(r)'
    BY <1>2, <2>1 DEF run, executor, KnownOrSettled, Active, Calling, Current, List
  <2> QED
    BY <1>2, <2>2 DEF run, LeakInv, LeakAt
<1>3. ASSUME NEW s \in Sessions, OtherStarts(s) PROVE LeakInv'
  <2>1. /\ owner[s] = None /\ owner' = [owner EXCEPT ![s] = Other]
        /\ alive' = alive \cup {s} /\ UNCHANGED <<run, executor>>
    BY <1>3 DEF OtherStarts
  <2>2. \A r \in Runs : Mine(r)' = Mine(r) /\ s \notin Mine(r)
    BY <2>1, NamesAssumption DEF Mine, TypeInv, TypeOK
  <2> QED
    BY <1>2, <2>1, <2>2
<1>4. ASSUME NEW s \in Sessions, Exits(s) PROVE LeakInv'
  BY <1>2, <1>4 DEF Exits, Mine
<1>5. CASE UNCHANGED vars
  BY <1>2, <1>5 DEF vars, world, Mine
<1> QED
  BY <1>1, <1>3, <1>4, <1>5 DEF Next

(***************************************************************************)
(* While the dispatcher keeps runs apart, a run of a document that starts  *)
(* one session and stops it in its cleanup leaves that session alive only  *)
(* if its report tells of a stop that failed or had errors.                *)
(***************************************************************************)
THEOREM NothingLeaksSilently ==
  ASSUME Serial
  PROVE  Spec => []LeakIsReported
<1>1. Init => LeakInv
  BY NamesAssumption DEF Init, LeakInv, LeakAt, Mine
<1>2. LeakInv => LeakIsReported
  BY DEF LeakInv, LeakAt, KnownOrSettled, Settled, LeakIsReported
<1> QED
  BY <1>1, <1>2, ScenarioInitType, ScenarioNextType, OwnInitInv, OwnNext, LeakNext,
     PTL DEF Spec

-----------------------------------------------------------------------------
(***************************************************************************)
(* What a run executes.  Its report is that of its first n steps and then  *)
(* of its cleanup steps; only the last of the n may have failed.           *)
(***************************************************************************)
Reports(r, n) ==
  /\ n <= Len(doc[r].steps) /\ n <= Len(results[r])
  /\ \A i \in 1 .. Len(results[r]) : results[r][i].cleanup <=> i > n
  /\ \A i \in 1 .. n : /\ results[r][i].step = doc[r].steps[i]
                       /\ results[r][i].verdict = "failed" <=> (i = n /\ status[r] = "failed")
  /\ \A i \in n + 1 .. Len(results[r]) : results[r][i].step = doc[r].cleanup[i - n]

StartedIn(r, n) == \E i \in 1 .. n : doc[r].steps[i].kind = "start_session"

Stands(r, n) ==
  /\ Reports(r, n)
  /\ phase[r] = "steps" =>
       /\ Len(results[r]) = n
       /\ at[r] = IF status[r] = "failed" THEN Len(doc[r].steps) + 1 ELSE n + 1
       /\ StartedIn(r, n) => started[r]
  /\ phase[r] \in {"cleanup", "ended"} /\ status[r] = "passed" => n = Len(doc[r].steps)
  /\ phase[r] = "cleanup" => /\ Len(results[r]) = n + at[r] - 1
                             /\ at[r] <= Len(doc[r].cleanup) + 1
  /\ phase[r] = "ended" => \/ Len(results[r]) = n + Len(doc[r].cleanup)
                           \/ Len(results[r]) = n /\ ~ StartedIn(r, n)

DeclaredAt(r) ==
  /\ phase[r] = "idle" => results[r] = <<>> /\ at[r] = 1
  /\ Active(r) => status[r] \in {"passed", "failed"}
  /\ (phase[r] \in {"steps", "cleanup", "ended"} /\ status[r] # "skipped") =>
       doc[r] \in Scenarios /\ \E n \in Nat : Stands(r, n)

DeclaredInv == \A r \in Runs : DeclaredAt(r)

LEMMA DeclaredFrame ==
  ASSUME NEW r \in Runs, DeclaredAt(r), phase'[r] = phase[r], doc'[r] = doc[r],
         at'[r] = at[r], started'[r] = started[r], results'[r] = results[r],
         status'[r] = status[r]
  PROVE  DeclaredAt(r)'
<1>1. ASSUME NEW n \in Nat, Reports(r, n) PROVE Reports(r, n)'
  BY <1>1 DEF Reports
<1>2. \A n \in Nat : StartedIn(r, n)' <=> StartedIn(r, n)
  BY DEF StartedIn
<1>3. ASSUME NEW n \in Nat, Stands(r, n) PROVE Stands(r, n)'
  BY <1>1, <1>2, <1>3 DEF Stands
<1> QED
  BY <1>3 DEF DeclaredAt, Active

\* A step that is executed is the next one of its document.
LEMMA ConcludeDeclared ==
  ASSUME TypeInv, DeclaredInv, NEW r \in Runs, Active(r), at[r] <= Len(List(r)),
         NEW verdict \in Verdicts, NEW sid, Conclude(r, verdict, sid)
  PROVE  DeclaredInv'
<1> DEFINE old == results[r]
           record == [step |-> Current(r), verdict |-> verdict,
                      cleanup |-> phase[r] = "cleanup"]
           new == Append(old, record)
           d == doc[r]
<1>1. ASSUME NEW q \in Runs, q # r PROVE DeclaredAt(q)'
  <2>1. /\ phase' = phase /\ doc' = doc /\ at'[q] = at[q] /\ started'[q] = started[q]
        /\ results'[q] = results[q] /\ status'[q] = status[q]
    BY <1>1 DEF Conclude, TypeInv, TypeOK
  <2> QED
    BY <2>1, DeclaredFrame DEF DeclaredInv
<1>2. /\ old \in Seq(Records) /\ results'[r] = new /\ phase' = phase /\ doc' = doc
      /\ record.step = Current(r) /\ record.verdict = verdict
      /\ record.cleanup = (phase[r] = "cleanup")
  BY DEF Conclude, TypeInv, TypeOK
<1>3. record \in Records
  BY CurrentStep DEF Records
<1>4. /\ d \in Scenarios /\ d.steps \in Seq(Steps) /\ d.cleanup \in Seq(Steps)
      /\ at[r] \in Nat \ {0}
  BY ScenariosAssumption DEF TypeInv, TypeOK, ShapeOK, Valid
<1>5. Len(d.steps) \in Nat /\ Len(d.cleanup) \in Nat
  BY <1>4, LenProperties
<1>6. status[r] \in {"passed", "failed"}
  BY DEF DeclaredInv, DeclaredAt, Active
<1>7. PICK n \in Nat : Stands(r, n)
  BY <1>6 DEF DeclaredInv, DeclaredAt, Active
<1> HIDE DEF old, record
<1>8. /\ Len(old) \in Nat /\ Len(new) = Len(old) + 1
      /\ \A i \in 1 .. Len(old) : new[i] = old[i]
      /\ new[Len(old) + 1] = record
  BY <1>2, <1>3, AppendProperties, LenProperties
<1> HIDE DEF new, d
<1>9. /\ n <= Len(d.steps) /\ n <= Len(old)
      /\ \A i \in 1 .. Len(old) : old[i].cleanup <=> i > n
      /\ \A i \in 1 .. n : /\ old[i].step = d.steps[i]
                           /\ old[i].verdict = "failed" <=> (i = n /\ status[r] = "failed")
      /\ \A i \in n + 1 .. Len(old) : old[i].step = d.cleanup[i - n]
  BY <1>7 DEF Stands, Reports, old, d
<1>10. CASE phase[r] = "steps"
  <2>1. /\ Current(r) = d.steps[at[r]] /\ at[r] <= Len(d.steps)
        /\ status'[r] = IF verdict = "failed" THEN "failed" ELSE status[r]
        /\ at'[r] = IF verdict = "failed" THEN Len(d.steps) + 1 ELSE at[r] + 1
        /\ started'[r] = (started[r] \/ sid # None \/ Current(r).kind = "start_session")
    BY <1>10 DEF Conclude, Current, List, TypeInv, TypeOK, d
  <2>2. status[r] = "passed" /\ at[r] = n + 1 /\ Len(old) = n
    BY <1>5, <1>6, <1>7, <1>10, <2>1 DEF Stands, old, d
  <2>3. /\ n + 1 <= Len(d.steps) /\ Len(new) = n + 1
        /\ \A i \in 1 .. n : new[i] = old[i]
        /\ new[n + 1] = record
    BY <1>8, <2>1, <2>2
  <2>4. \A i \in 1 .. n + 1 : i \in 1 .. n \/ i = n + 1
    OBVIOUS
  <2>5. \A i \in 1 .. n + 1 : new[i].cleanup <=> i > n + 1
    <3> TAKE i \in 1 .. n + 1
    <3>1. ~ (i > n + 1)
      OBVIOUS
    <3>2. CASE i = n + 1
      <4>1. ~ record.cleanup
        BY <1>2, <1>10
      <4> QED
        BY <2>3, <3>1, <3>2, <4>1
    <3>3. CASE i # n + 1
      <4>1. i \in 1 .. n /\ ~ (i > n)
        BY <3>3
      <4>2. ~ old[i].cleanup
        BY <1>9, <2>2, <4>1
      <4> QED
        BY <2>3, <3>1, <4>1, <4>2
    <3> QED
      BY <3>2, <3>3
  <2>6. \A i \in 1 .. n + 1 : new[i].step = d.steps[i]
    BY <1>2, <1>9, <2>1, <2>2, <2>3, <2>4
  <2>7. \A i \in 1 .. n + 1 :
          new[i].verdict = "failed" <=> (i = n + 1 /\ status'[r] = "failed")
    BY <1>2, <1>9, <2>1, <2>2, <2>3, <2>4
  <2>8. Reports(r, n + 1)'
    BY <1>2, <2>3, <2>5, <2>6, <2>7 DEF Reports, d
  <2>9. StartedIn(r, n + 1)' => started'[r]
    <3>1. StartedIn(r, n + 1)' => StartedIn(r, n) \/ d.steps[n + 1].kind = "start_session"
      BY <1>2, <2>4 DEF StartedIn, d
    <3> QED
      BY <1>7, <1>10, <2>1, <2>2, <3>1 DEF Stands
  <2>10. Stands(r, n + 1)'
    BY <1>2, <1>10, <2>1, <2>2, <2>3, <2>8, <2>9 DEF Stands, d
  <2>11. DeclaredAt(r)'
    BY <1>2, <1>4, <1>10, <2>1, <2>2, <2>10 DEF DeclaredAt, d
  <2> QED
    BY <1>1, <2>11 DEF DeclaredInv
<1>11. CASE phase[r] = "cleanup"
  <2>1. /\ Current(r) = d.cleanup[at[r]] /\ at[r] <= Len(d.cleanup)
        /\ status'[r] = status[r] /\ at'[r] = at[r] + 1
    BY <1>11 DEF Conclude, Current, List, TypeInv, TypeOK, d
  <2>2. Len(old) = n + at[r] - 1
    BY <1>7, <1>11 DEF Stands, old
  <2>3. Len(new) = n + at[r] /\ new[n + at[r]] = record
    BY <1>4, <1>8, <2>2
  <2>4. \A i \in 1 .. n + at[r] : i \in 1 .. Len(old) \/ i = n + at[r]
    BY <1>4, <2>2
  <2>5. \A i \in 1 .. n + at[r] : new[i].cleanup <=> i > n
    <3> TAKE i \in 1 .. n + at[r]
    <3>1. CASE i = n + at[r]
      <4>1. i > n
        BY <1>4, <3>1
      <4>2. record.cleanup
        BY <1>2, <1>11
      <4> QED
        BY <2>3, <3>1, <4>1, <4>2
    <3>2. CASE i \in 1 .. Len(old)
      BY <1>8, <1>9, <3>2
    <3> QED
      BY <2>4, <3>1, <3>2
  <2>6. \A i \in 1 .. n : /\ new[i].step = d.steps[i]
                          /\ new[i].verdict = "failed" <=> (i = n /\ status[r] = "failed")
    <3>1. \A i \in 1 .. n : i \in 1 .. Len(old)
      BY <1>8, <1>9
    <3> QED
      BY <1>8, <1>9, <3>1
  <2>7. \A i \in n + 1 .. n + at[r] : new[i].step = d.cleanup[i - n]
    <3> TAKE i \in n + 1 .. n + at[r]
    <3>1. CASE i = n + at[r]
      <4>1. i - n = at[r]
        BY <1>4, <3>1
      <4> QED
        BY <1>2, <2>1, <2>3, <3>1, <4>1
    <3>2. CASE i # n + at[r]
      <4>1. i \in n + 1 .. Len(old) /\ i \in 1 .. Len(old)
        <5>1. Len(old) = n + at[r] - 1 /\ at[r] \in Nat
          BY <1>4, <2>2
        <5> QED
          BY <3>2, <5>1
      <4> QED
        BY <1>8, <1>9, <4>1
    <3> QED
      BY <3>1, <3>2
  <2>8. n <= Len(new)
    BY <1>4, <2>3
  <2>9. Reports(r, n)'
    BY <1>2, <1>9, <2>1, <2>3, <2>5, <2>6, <2>7, <2>8 DEF Reports, d
  <2>10. Len(new) = n + at'[r] - 1 /\ at'[r] <= Len(d.cleanup) + 1
    BY <1>4, <1>5, <2>1, <2>3
  <2>11. Stands(r, n)'
    BY <1>2, <1>7, <1>11, <2>1, <2>9, <2>10 DEF Stands, d
  <2>12. DeclaredAt(r)'
    BY <1>2, <1>4, <1>6, <1>11, <2>1, <2>11 DEF DeclaredAt, d
  <2> QED
    BY <1>1, <2>12 DEF DeclaredInv
<1> QED
  BY <1>10, <1>11 DEF Active

\* A run goes on without an outcome: its report and its document stay.
LEMMA TurnDeclared ==
  ASSUME TypeInv, DeclaredInv, NEW r \in Runs, NEW how, Turn(r, how),
         \A q \in Runs : q # r => at'[q] = at[q],
         UNCHANGED <<doc, started, results, status>>,
         DeclaredAt(r)'
  PROVE  DeclaredInv'
<1>1. ASSUME NEW q \in Runs, q # r PROVE DeclaredAt(q)'
  BY <1>1, DeclaredFrame DEF DeclaredInv, Turn, TypeInv, TypeOK
<1> QED
  BY <1>1 DEF DeclaredInv

\* With its steps behind it a run has executed all of them, or one failed.
LEMMA StepsDoneDeclared ==
  ASSUME TypeInv, DeclaredInv, NEW r \in Runs, StepsDone(r)
  PROVE  DeclaredInv'
<1>1. phase[r] = "steps" /\ at[r] > Len(doc[r].steps) /\ at[r] \in Nat
  BY DEF StepsDone, Running, TypeInv, TypeOK
<1>2. /\ UNCHANGED <<doc, started, results, status>>
      /\ at'[r] = 1 /\ \A q \in Runs : q # r => at'[q] = at[q]
      /\ phase'[r] = IF started[r] THEN "cleanup" ELSE "ended"
  BY DEF StepsDone, Turn, TypeInv, TypeOK
<1>3. doc[r] \in Scenarios /\ status[r] \in {"passed", "failed"}
  BY <1>1 DEF DeclaredInv, DeclaredAt, Active
<1>4. PICK n \in Nat : Stands(r, n)
  BY <1>1, <1>3 DEF DeclaredInv, DeclaredAt
<1>5. Len(doc[r].steps) \in Nat /\ Len(doc[r].cleanup) \in Nat
  BY <1>3, ScenariosAssumption, LenProperties DEF Valid
<1>6. status[r] = "passed" => n = Len(doc[r].steps)
  BY <1>1, <1>4, <1>5 DEF Stands, Reports
<1>7. Reports(r, n)' /\ (StartedIn(r, n)' => started[r])
  BY <1>1, <1>2, <1>4 DEF Stands, Reports, StartedIn
<1>8. Len(results[r]) = n /\ n = n + 1 - 1
  BY <1>1, <1>4 DEF Stands
<1>9. Stands(r, n)'
  BY <1>2, <1>5, <1>6, <1>7, <1>8 DEF Stands
<1>10. DeclaredAt(r)'
  BY <1>2, <1>3, <1>9 DEF DeclaredAt
<1>11. Turn(r, IF started[r] THEN "cleanup" ELSE "ended")
  BY DEF StepsDone
<1> QED
  BY <1>2, <1>10, <1>11, TurnDeclared

LEMMA CleanupDoneDeclared ==
  ASSUME TypeInv, DeclaredInv, NEW r \in Runs, CleanupDone(r)
  PROVE  DeclaredInv'
<1>1. phase[r] = "cleanup" /\ at[r] > Len(doc[r].cleanup) /\ at[r] \in Nat
  BY DEF CleanupDone, Running, TypeInv, TypeOK
<1>2. UNCHANGED <<doc, at, started, results, status>> /\ Turn(r, "ended") /\ phase'[r] = "ended"
  BY DEF CleanupDone, Turn, TypeInv, TypeOK
<1>3. doc[r] \in Scenarios /\ status[r] \in {"passed", "failed"}
  BY <1>1 DEF DeclaredInv, DeclaredAt, Active
<1>4. PICK n \in Nat : Stands(r, n)
  BY <1>1, <1>3 DEF DeclaredInv, DeclaredAt
<1>5. Len(doc[r].cleanup) \in Nat
  BY <1>3, ScenariosAssumption, LenProperties DEF Valid
<1>6. Len(results[r]) = n + at[r] - 1 /\ at[r] = Len(doc[r].cleanup) + 1
  BY <1>1, <1>4, <1>5 DEF Stands
<1>7. Len(results[r]) = n + Len(doc[r].cleanup)
  BY <1>5, <1>6
<1>8. Stands(r, n)'
  BY <1>1, <1>2, <1>4, <1>7 DEF Stands, Reports, StartedIn
<1>9. DeclaredAt(r)'
  BY <1>2, <1>3, <1>8 DEF DeclaredAt, Active
<1> QED
  BY <1>2, <1>9, TurnDeclared

LEMMA BeginDeclared ==
  ASSUME TypeInv, DeclaredInv, NEW r \in Runs, Begin(r)
  PROVE  DeclaredInv'
<1>1. /\ phase[r] = "idle" /\ phase' = [phase EXCEPT ![r] = "steps"]
      /\ status' = [status EXCEPT ![r] = "passed"]
      /\ \E d \in Scenarios : doc' = [doc EXCEPT ![r] = d]
      /\ UNCHANGED <<at, started, results>>
  BY DEF Begin, Admitted, Turn
<1>2. results[r] = <<>> /\ at[r] = 1
  BY <1>1 DEF DeclaredInv, DeclaredAt
<1>3. phase'[r] = "steps" /\ status'[r] = "passed" /\ doc'[r] \in Scenarios
  BY <1>1 DEF TypeInv, TypeOK
<1>4. Len(doc'[r].steps) \in Nat
  BY <1>3, ScenariosAssumption, LenProperties DEF Valid
<1>5. Len(results[r]) = 0
  BY <1>2
<1>6. Stands(r, 0)'
  BY <1>1, <1>2, <1>3, <1>4, <1>5 DEF Stands, Reports, StartedIn
<1>7. DeclaredAt(r)'
  BY <1>3, <1>6 DEF DeclaredAt
<1>8. ASSUME NEW q \in Runs, q # r PROVE DeclaredAt(q)'
  BY <1>1, <1>8, DeclaredFrame DEF DeclaredInv, TypeInv, TypeOK
<1> QED
  BY <1>7, <1>8 DEF DeclaredInv

LEMMA DeclaredStep ==
  ASSUME TypeInv, DeclaredInv, NEW r \in Runs, Step(r)
  PROVE  DeclaredInv'
<1>1. ASSUME NEW verdict \in Verdicts, NEW sid, Conclude(r, verdict, sid),
             Active(r), at[r] <= Len(List(r))
      PROVE  DeclaredInv'
  BY <1>1, ConcludeDeclared
<1>2. ASSUME NEW s, NEW node, NEW sole, Call(r, s, node, sole) PROVE DeclaredInv'
  BY <1>2, DeclaredFrame DEF Call, DeclaredInv
<1>3. ASSUME Raised(r), Active(r), at[r] <= Len(List(r)) PROVE DeclaredInv'
  BY <1>1, <1>3 DEF Raised, Verdicts
<1>4. CASE Begin(r)
  BY <1>4, BeginDeclared
<1>5. CASE Skip(r)
  <2>1. /\ phase' = [phase EXCEPT ![r] = "ended"] /\ Turn(r, "ended")
        /\ status' = [status EXCEPT ![r] = "skipped"]
        /\ UNCHANGED <<doc, at, started, results>>
    BY <1>5 DEF Skip, Turn
  <2>2. DeclaredAt(r)'
    BY <2>1 DEF DeclaredAt, Active, TypeInv, TypeOK
  <2>3. ASSUME NEW q \in Runs, q # r PROVE DeclaredAt(q)'
    BY <2>1, <2>3, DeclaredFrame DEF DeclaredInv, TypeInv, TypeOK
  <2> QED
    BY <2>2, <2>3 DEF DeclaredInv
<1>6. CASE StepsDone(r)
  BY <1>6, StepsDoneDeclared
<1>7. CASE CleanupDone(r)
  BY <1>7, CleanupDoneDeclared
<1>8. CASE ConsumedEmpty(r)
  BY <1>1, <1>8, ReadyStep DEF ConsumedEmpty, Verdicts
<1>9. CASE CannotCall(r)
  BY <1>3, <1>9, ReadyStep DEF CannotCall
<1>10. CASE CallBound(r) \/ CallAction(r) \/ CallStart(r)
  BY <1>2, <1>10 DEF CallBound, CallAction, CallStart
<1>11. CASE CallStop(r)
  BY <1>2, <1>3, <1>11, ReadyStep DEF CallStop
<1>12. CASE Sleep(r)
  BY <1>1, <1>12, ReadyStep DEF Sleep, Verdicts
<1>13. CASE EvaluateAssertion(r)
  BY <1>1, <1>13, ReadyStep DEF EvaluateAssertion, Verdicts
<1>14. CASE ReturnStart(r)
  BY <1>1, <1>3, <1>14, CallingStep DEF ReturnStart, Verdicts
<1>15. CASE ReturnFind(r)
  BY <1>1, <1>3, <1>15, CallingStep DEF ReturnFind, Verdicts
<1>16. CASE ReturnScroll(r)
  <2>1. CASE Turn(r, "raised") /\ UNCHANGED <<doc, at, started, results, status>>
    <3>1. phase'[r] = "raised"
      BY <2>1 DEF Turn, TypeInv, TypeOK
    <3>2. DeclaredAt(r)'
      BY <3>1 DEF DeclaredAt, Active
    <3> QED
      BY <2>1, <3>2, TurnDeclared
  <2>2. CASE \E verdict \in {"passed", "failed"} : Conclude(r, verdict, None)
    BY <1>1, <1>16, <2>2, CallingStep DEF ReturnScroll, Verdicts
  <2> QED
    BY <1>16, <2>1, <2>2 DEF ReturnScroll
<1>17. CASE ReturnOther(r)
  BY <1>1, <1>3, <1>17, CallingStep DEF ReturnOther, Verdicts
<1>18. CASE ReturnStop(r)
  BY <1>1, <1>3, <1>18, CallingStep DEF ReturnStop, Verdicts
<1> QED
  BY <1>4, <1>5, <1>6, <1>7, <1>8, <1>9, <1>10, <1>11, <1>12, <1>13, <1>14,
     <1>15, <1>16, <1>17, <1>18 DEF Step

LEMMA DeclaredNext == TypeInv /\ DeclaredInv /\ [Next]_vars => DeclaredInv'
<1> SUFFICES ASSUME TypeInv, DeclaredInv, [Next]_vars PROVE DeclaredInv'
  OBVIOUS
<1>1. ASSUME NEW r \in Runs, Step(r) PROVE DeclaredInv'
  BY <1>1, DeclaredStep
<1>2. ASSUME UNCHANGED run PROVE DeclaredInv'
  BY <1>2, DeclaredFrame DEF run, DeclaredInv
<1> QED
  BY <1>1, <1>2 DEF Next, OtherStarts, Exits, vars

\* Two sequences with the same elements are the same.
LEMMA SameSteps ==
  ASSUME NEW s \in Seq(Steps), NEW t \in Seq(Steps), Len(s) = Len(t),
         \A i \in 1 .. Len(s) : s[i] = t[i]
  PROVE  s = t
  BY SeqEqual

LEMMA NumbersTo ==
  ASSUME NEW n \in Nat
  PROVE  Cardinality(1 .. n) = n
<1>1. Cardinality(1 .. n) = IF 1 > n THEN 0 ELSE n - 1 + 1
  BY FS_Interval
<1> QED
  BY <1>1

\* The report of a run that has ended, as RunsAsDeclared reads it.
LEMMA EndedAsDeclared ==
  ASSUME TypeInv, DeclaredInv, NEW r \in Runs, phase[r] = "ended", status[r] # "skipped"
  PROVE  LET n == Cardinality({i \in DOMAIN results[r] : ~results[r][i].cleanup})
             done == [i \in DOMAIN results[r] |-> results[r][i].step]
             tail == SubSeq(done, n + 1, Len(done))
         IN /\ SubSeq(done, 1, n) = SubSeq(doc[r].steps, 1, n)
            /\ \A i \in 1..n : results[r][i].verdict = "failed" <=> i = n /\ status[r] = "failed"
            /\ status[r] = "passed" => n = Len(doc[r].steps)
            /\ tail \in {<<>>, doc[r].cleanup}
            /\ (\E i \in 1..n : done[i].kind = "start_session") => tail = doc[r].cleanup
<1> DEFINE report == results[r]
           d == doc[r]
           done == [i \in DOMAIN report |-> report[i].step]
<1>1. PICK n \in Nat : Stands(r, n)
  BY DEF DeclaredInv, DeclaredAt
<1>2. /\ d.steps \in Seq(Steps) /\ d.cleanup \in Seq(Steps)
      /\ Len(d.steps) \in Nat /\ Len(d.cleanup) \in Nat
      /\ DOMAIN d.steps = 1 .. Len(d.steps) /\ DOMAIN d.cleanup = 1 .. Len(d.cleanup)
  BY ScenariosAssumption, LenProperties DEF DeclaredInv, DeclaredAt, Valid
<1>3. /\ report \in Seq(Records) /\ Len(report) \in Nat /\ DOMAIN report = 1 .. Len(report)
  BY LenProperties DEF TypeInv, TypeOK
<1>4. /\ n <= Len(d.steps) /\ n <= Len(report)
      /\ \A i \in 1 .. Len(report) : report[i].cleanup <=> i > n
      /\ \A i \in 1 .. n : /\ report[i].step = d.steps[i]
                           /\ report[i].verdict = "failed" <=> (i = n /\ status[r] = "failed")
      /\ \A i \in n + 1 .. Len(report) : report[i].step = d.cleanup[i - n]
  BY <1>1 DEF Stands, Reports
<1>5. /\ status[r] = "passed" => n = Len(d.steps)
      /\ \/ Len(report) = n + Len(d.cleanup)
         \/ Len(report) = n /\ ~ StartedIn(r, n)
  BY <1>1 DEF Stands
<1>6. \A i \in 1 .. Len(report) : report[i] \in Records /\ report[i].step \in Steps
  <2>1. \A i \in 1 .. Len(report) : report[i] \in Records
    BY <1>3, ElementOfSeq
  <2> HIDE DEF report
  <2> QED
    BY <2>1 DEF Records
<1> HIDE DEF report, d
<1>7. /\ done \in Seq(Steps) /\ Len(done) = Len(report)
      /\ \A i \in 1 .. Len(report) : done[i] = report[i].step
  BY <1>3, <1>6
<1>8. Cardinality({i \in DOMAIN report : ~ report[i].cleanup}) = n
  <2>1. {i \in DOMAIN report : ~ report[i].cleanup} = 1 .. n
    BY <1>3, <1>4
  <2> QED
    BY <2>1, NumbersTo
<1> HIDE DEF done
<1>9. SubSeq(done, 1, n) = SubSeq(d.steps, 1, n)
  <2>1. \A i \in 1 .. n : /\ done[i] = d.steps[i] /\ done[i] \in Steps /\ d.steps[i] \in Steps
                          /\ 1 + i - 1 = i
    BY <1>3, <1>4, <1>6, <1>7
  <2>2. /\ SubSeq(done, 1, n) \in Seq(Steps) /\ Len(SubSeq(done, 1, n)) = n
        /\ \A i \in 1 .. n : SubSeq(done, 1, n)[i] = done[i]
    BY <2>1, SubSeqProperties
  <2>3. /\ SubSeq(d.steps, 1, n) \in Seq(Steps) /\ Len(SubSeq(d.steps, 1, n)) = n
        /\ \A i \in 1 .. n : SubSeq(d.steps, 1, n)[i] = d.steps[i]
    BY <2>1, SubSeqProperties
  <2> QED
    BY <2>1, <2>2, <2>3, SameSteps
<1>10. CASE Len(report) = n /\ ~ StartedIn(r, n)
  <2>1. SubSeq(done, n + 1, Len(done)) = <<>>
    BY <1>7, <1>10, SubSeqEmpty
  <2>2. ~ \E i \in 1 .. n : done[i].kind = "start_session"
    BY <1>3, <1>4, <1>7, <1>10 DEF StartedIn, d
  <2> QED
    BY <1>4, <1>5, <1>8, <1>9, <2>1, <2>2 DEF done, report, d
<1>11. CASE Len(report) = n + Len(d.cleanup)
  <2> DEFINE tail == SubSeq(done, n + 1, Len(done))
  <2>1. Len(done) = n + Len(d.cleanup)
    BY <1>7, <1>11
  <2>2. \A i \in n + 1 .. Len(done) : done[i] = d.cleanup[i - n] /\ done[i] \in Steps
    <3> TAKE i \in n + 1 .. Len(done)
    <3>1. i \in n + 1 .. Len(report) /\ i \in 1 .. Len(report)
      BY <1>3, <1>7
    <3> QED
      BY <1>4, <1>6, <1>7, <3>1
  <2>3. /\ tail \in Seq(Steps)
        /\ Len(tail) = IF n + 1 <= Len(done) THEN Len(done) - (n + 1) + 1 ELSE 0
        /\ \A i \in 1 .. Len(done) - (n + 1) + 1 : tail[i] = done[n + 1 + i - 1]
    BY <1>2, <2>1, <2>2, SubSeqProperties
  <2> HIDE DEF tail
  <2>4. Len(tail) = Len(d.cleanup)
    BY <1>2, <2>1, <2>3
  <2>5. \A i \in 1 .. Len(d.cleanup) : tail[i] = d.cleanup[i]
    <3> TAKE i \in 1 .. Len(d.cleanup)
    <3>1. /\ i \in 1 .. Len(done) - (n + 1) + 1 /\ n + 1 + i - 1 = n + i
          /\ n + i \in n + 1 .. Len(done) /\ (n + i) - n = i
      BY <1>2, <2>1
    <3> QED
      BY <2>2, <2>3, <3>1
  <2>6. tail = d.cleanup
    BY <1>2, <2>3, <2>4, <2>5, SameSteps
  <2> QED
    BY <1>4, <1>5, <1>8, <1>9, <2>6 DEF done, report, d, tail
<1> QED
  BY <1>5, <1>10, <1>11

(***************************************************************************)
(* However runs overlap: a run that ended has executed its steps up to the *)
(* first that failed, and once it had executed a start all of its cleanup. *)
(***************************************************************************)
THEOREM RunsDoWhatIsDeclared == Spec => []RunsAsDeclared
<1>1. Init => DeclaredInv
  BY DEF Init, DeclaredInv, DeclaredAt, Active
<1>2. TypeInv /\ DeclaredInv => RunsAsDeclared
  BY EndedAsDeclared DEF RunsAsDeclared
<1> QED
  BY <1>1, <1>2, ScenarioInitType, ScenarioNextType, DeclaredNext, PTL DEF Spec
=============================================================================
