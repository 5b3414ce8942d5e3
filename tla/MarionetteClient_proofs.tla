----------------------- MODULE MarionetteClient_proofs -----------------------
(***************************************************************************)
(* The Marionette adapter for every number of calls, scripts or captures,  *)
(* and of Firefoxes that come and go on the port.                          *)
(***************************************************************************)
EXTENDS MarionetteClient, FiniteSetTheorems, SequenceTheorems, TLAPS

-----------------------------------------------------------------------------
(***************************************************************************)
(* What is in the socket and in the commands Firefox has yet to execute.    *)
(***************************************************************************)
LEMMA RangeOfNone == Range(<<>>) = {}
  BY DEF Range

LEMMA RangeType ==
  ASSUME NEW S, NEW q \in Seq(S)
  PROVE  Range(q) \subseteq S
  BY RangeOfSeq

\* What is written comes last and is there beside what was there.
LEMMA RangeOfAppend ==
  ASSUME NEW S, NEW q \in Seq(S), NEW m \in S
  PROVE  /\ Append(q, m) \in Seq(S) /\ Len(Append(q, m)) = Len(q) + 1
         /\ Range(Append(q, m)) = Range(q) \cup {m}
<1>1. <<m>> \in Seq(S) /\ Range(<<m>>) = {m}
  BY DEF Range
<1>2. Append(q, m) = q \o <<m>>
  BY AppendIsConcat
<1>3. \A s, t \in Seq(S) : Range(s \o t) = Range(s) \cup Range(t)
  BY RangeConcatenation
<1>4. Range(q \o <<m>>) = Range(q) \cup {m}
  BY <1>1, <1>3, Zenon
<1> QED
  BY <1>2, <1>4, AppendProperties

\* The first is read; what is left was there and has moved up by one.
LEMMA RangeOfTail ==
  ASSUME NEW S, NEW q \in Seq(S), q # <<>>
  PROVE  /\ Head(q) \in S /\ Head(q) \in Range(q)
         /\ Tail(q) \in Seq(S) /\ Len(Tail(q)) = Len(q) - 1
         /\ Range(Tail(q)) \subseteq Range(q)
         /\ \A i \in DOMAIN Tail(q) : i + 1 \in DOMAIN q /\ Tail(q)[i] = q[i + 1]
         /\ 1 \in DOMAIN q /\ Head(q) = q[1] /\ DOMAIN Tail(q) \subseteq Nat \ {0}
<1>1. /\ Head(q) \in S /\ Tail(q) \in Seq(S) /\ Len(Tail(q)) = Len(q) - 1
      /\ \A i \in 1 .. Len(Tail(q)) : Tail(q)[i] = q[i + 1]
  BY HeadTailProperties
<1>2. DOMAIN q = 1 .. Len(q) /\ Len(q) \in Nat \ {0}
      /\ DOMAIN Tail(q) = 1 .. Len(Tail(q))
  BY <1>1, LenProperties, EmptySeq
<1>3. Head(q) = q[1] /\ 1 \in DOMAIN q
  BY <1>2
<1>4. \A i \in DOMAIN Tail(q) : i + 1 \in DOMAIN q
  BY <1>1, <1>2
<1> QED
  BY <1>1, <1>2, <1>3, <1>4 DEF Range

-----------------------------------------------------------------------------
(***************************************************************************)
(* Type correctness.                                                       *)
(***************************************************************************)
\* No call has been made and no Firefox has started.
LEMMA MarionetteInitType == Init => TypeOK
<1> SUFFICES ASSUME Init PROVE TypeOK
  OBVIOUS
<1>1. todo \in Seq(Tasks) /\ inbox \in Seq(Frames)
  BY EmptySeq DEF Init
<1>2. pc \in [Calls -> {"idle", "done"} \cup Waits] /\ answer \in [Calls -> Outcomes \cup Calls]
  BY DEF Init, Outcomes
<1>3. req \in [Calls -> Nat] /\ runs \in [Calls -> Nat] /\ msgId \in Nat /\ link \in Nat
  BY DEF Init
<1>4. /\ reused \in [Calls -> BOOLEAN] /\ again \in [Calls -> BOOLEAN]
      /\ calm \in [Calls -> BOOLEAN] /\ clean \in [Calls -> BOOLEAN]
  BY DEF Init
<1>5. up \in BOOLEAN /\ cached \in BOOLEAN /\ ready \in BOOLEAN /\ open \in BOOLEAN /\ owed \in BOOLEAN
  BY DEF Init
<1>6. starts \in 0 .. MaxStarts
  BY MarionetteAssumption DEF Init
<1> QED
  BY <1>1, <1>2, <1>3, <1>4, <1>5, <1>6 DEF TypeOK

\* What a command changes keeps its type.
LEMMA CommandType ==
  ASSUME TypeOK, NEW c \in Calls, NEW what \in {"session", "find", "work"}, Command(c, what)
  PROVE  /\ todo' \in Seq(Tasks) /\ msgId' \in Nat /\ req' \in [Calls -> Nat]
         /\ pc' \in [Calls -> {"idle", "done"} \cup Waits] /\ answer' = answer
<1>1. msgId' = msgId + 1 /\ msgId \in Nat /\ link \in Nat
  BY DEF Command, TypeOK
<1>2. [what |-> what, id |-> msgId + 1, call |-> c, link |-> link] \in Tasks
  BY <1>1 DEF Tasks, Waits
<1>3. Append(todo, [what |-> what, id |-> msgId + 1, call |-> c, link |-> link]) \in Seq(Tasks)
  BY <1>2, RangeOfAppend DEF TypeOK
<1>4. todo' \in Seq(Tasks)
  BY <1>1, <1>3 DEF Command, TypeOK
<1>5. req' \in [Calls -> Nat]
  BY <1>1 DEF Command, TypeOK
<1>6. pc' \in [Calls -> {"idle", "done"} \cup Waits] /\ answer' = answer
  BY DEF Command, Await, TypeOK, Waits
<1> QED
  BY <1>1, <1>4, <1>5, <1>6

\* So does what a new connection changes.
LEMMA ConnectType ==
  ASSUME TypeOK, NEW c \in Calls, Connect(c)
  PROVE  /\ todo' \in Seq(Tasks) /\ pc' \in [Calls -> {"idle", "done"} \cup Waits]
         /\ link' \in Nat /\ cached' \in BOOLEAN /\ ready' \in BOOLEAN /\ open' \in BOOLEAN
         /\ inbox' \in Seq(Frames) /\ owed' \in BOOLEAN /\ UNCHANGED <<msgId, req, answer>>
<1>1. link' = link + 1 /\ link \in Nat
  BY DEF Connect, TypeOK
<1>2. [what |-> "hello", id |-> 0, call |-> c, link |-> link + 1] \in Tasks
  BY <1>1 DEF Tasks, Waits
<1>3. Append(todo, [what |-> "hello", id |-> 0, call |-> c, link |-> link + 1]) \in Seq(Tasks)
  BY <1>2, RangeOfAppend DEF TypeOK
<1>4. pc' \in [Calls -> {"idle", "done"} \cup Waits] /\ answer' = answer
  BY DEF Connect, Await, TypeOK, Waits
<1>5. todo' \in Seq(Tasks)
  BY <1>1, <1>3 DEF Connect
<1>6. link' \in Nat /\ inbox' \in Seq(Frames)
  BY <1>1, EmptySeq DEF Connect
<1>7. /\ cached' \in BOOLEAN /\ ready' \in BOOLEAN /\ open' \in BOOLEAN /\ owed' \in BOOLEAN
      /\ msgId' = msgId /\ req' = req
  BY DEF Connect
<1> QED
  BY <1>4, <1>5, <1>6, <1>7

\* So does what a return changes.
LEMMA ReturnType ==
  ASSUME TypeOK, NEW c \in Calls, NEW what \in Outcomes \cup Calls, Return(c, what)
  PROVE  /\ pc' \in [Calls -> {"idle", "done"} \cup Waits]
         /\ answer' \in [Calls -> Outcomes \cup Calls]
  BY DEF Return, TypeOK

\* So does what the end of an attempt changes.
LEMMA FailType ==
  ASSUME TypeOK, NEW c \in Calls, Fail(c)
  PROVE  /\ todo' \in Seq(Tasks) /\ pc' \in [Calls -> {"idle", "done"} \cup Waits]
         /\ link' \in Nat /\ cached' \in BOOLEAN /\ ready' \in BOOLEAN /\ open' \in BOOLEAN
         /\ inbox' \in Seq(Frames) /\ owed' \in BOOLEAN /\ UNCHANGED <<msgId, req>>
         /\ again' \in [Calls -> BOOLEAN] /\ answer' \in [Calls -> Outcomes \cup Calls]
<1>1. CASE Return(c, "raised") /\ UNCHANGED <<todo, connection, msgId, req, again, owed>>
  BY <1>1, ReturnType DEF TypeOK, connection, Outcomes
<1>2. CASE Connect(c) /\ again' = [again EXCEPT ![c] = TRUE]
  BY <1>2, ConnectType DEF TypeOK
<1>3. CASE Drop /\ Return(c, "raised") /\ UNCHANGED <<todo, link, open, msgId, req, again>>
  BY <1>3, ReturnType, EmptySeq DEF TypeOK, Drop, Outcomes
<1> QED
  BY <1>1, <1>2, <1>3 DEF Fail

\* An execution is counted for the call it was made for.
LEMMA ExecuteType ==
  ASSUME TypeOK, NEW task \in Tasks, Execute(task)
  PROVE  /\ runs' \in [Calls -> Nat] /\ task.call \in Calls
         /\ \A c \in Calls : runs'[c] = IF task.what = "work" /\ task.call = c
                                          THEN runs[c] + 1 ELSE runs[c]
<1>1. task.call \in Calls
  BY DEF Tasks
<1> QED
  BY <1>1 DEF Execute, TypeOK

\* Every step keeps the types.
LEMMA MarionetteNextType == TypeOK /\ [Next]_vars => TypeOK'
<1> SUFFICES ASSUME TypeOK, [Next]_vars PROVE TypeOK'
  OBVIOUS
<1> USE DEF firefox, connection, calls, history
<1>1. CASE FirefoxStarts
  <2>1. starts' \in 0 .. MaxStarts /\ up' \in BOOLEAN
    BY <1>1, MarionetteAssumption DEF FirefoxStarts, TypeOK
  <2> QED
    BY <1>1, <2>1 DEF FirefoxStarts, TypeOK
<1>2. CASE FirefoxStops
  <2>1. runs' \in [Calls -> Nat]
    BY <1>2, ExecuteType, RangeOfTail DEF FirefoxStops, TypeOK
  <2>2. calm' \in [Calls -> BOOLEAN] /\ up' \in BOOLEAN /\ open' \in BOOLEAN /\ todo' \in Seq(Tasks)
    BY <1>2, EmptySeq DEF FirefoxStops, TypeOK
  <2> QED
    BY <1>2, <2>1, <2>2 DEF FirefoxStops, TypeOK
<1>3. CASE Serve
  <2>1. todo \in Seq(Tasks) /\ Head(todo) \in Tasks /\ Tail(todo) \in Seq(Tasks)
    BY <1>3, RangeOfTail DEF Serve, TypeOK
  <2>2. runs' \in [Calls -> Nat]
    BY <1>3, <2>1, ExecuteType DEF Serve
  <2>3. \A ok \in BOOLEAN :
          Append(inbox, [what |-> Head(todo).what, id |-> Head(todo).id,
                         call |-> Head(todo).call, ok |-> ok]) \in Seq(Frames)
    <3> TAKE ok \in BOOLEAN
    <3>1. [what |-> Head(todo).what, id |-> Head(todo).id,
           call |-> Head(todo).call, ok |-> ok] \in Frames
      BY <2>1 DEF Tasks, Frames
    <3> QED
      BY <3>1, RangeOfAppend DEF TypeOK
  <2>4. inbox' \in Seq(Frames)
    BY <1>3, <2>3 DEF Serve, TypeOK
  <2> QED
    BY <1>3, <2>1, <2>2, <2>4 DEF Serve, TypeOK
<1>4. ASSUME NEW c \in Calls, Refuse(c) PROVE TypeOK'
  BY <1>4, ReturnType DEF Refuse, TypeOK, Outcomes
<1>5. ASSUME NEW c \in Calls, BeginReused(c) PROVE TypeOK'
  <2>1. /\ reused' \in [Calls -> BOOLEAN] /\ calm' \in [Calls -> BOOLEAN]
        /\ clean' \in [Calls -> BOOLEAN]
    BY <1>5 DEF BeginReused, TypeOK
  <2>2. CASE Command(c, FirstCommand(c))
    <3>1. FirstCommand(c) \in {"session", "find", "work"}
      BY DEF FirstCommand
    <3> QED
      BY <1>5, <2>1, <2>2, <3>1, CommandType DEF BeginReused, TypeOK
  <2>3. CASE Await(c, "hello") /\ UNCHANGED <<todo, msgId, req>>
    <3>1. pc' \in [Calls -> {"idle", "done"} \cup Waits] /\ answer' = answer
      BY <2>3 DEF Await, TypeOK, Waits
    <3> QED
      BY <1>5, <2>1, <2>3, <3>1 DEF BeginReused, TypeOK
  <2> QED
    BY <1>5, <2>2, <2>3 DEF BeginReused
<1>6. ASSUME NEW c \in Calls, BeginFresh(c) PROVE TypeOK'
  <2>1. calm' \in [Calls -> BOOLEAN]
    BY <1>6 DEF BeginFresh, TypeOK
  <2>2. CASE Connect(c)
    BY <1>6, <2>1, <2>2, ConnectType DEF BeginFresh, TypeOK
  <2>3. CASE Return(c, "raised") /\ UNCHANGED <<todo, connection, msgId, req, owed>>
    BY <1>6, <2>1, <2>3, ReturnType DEF BeginFresh, TypeOK, Outcomes
  <2> QED
    BY <1>6, <2>2, <2>3 DEF BeginFresh
<1>7. ASSUME NEW c \in Calls, Receive(c) PROVE TypeOK'
  <2>1. /\ inbox # <<>> /\ inbox' = Tail(inbox)
        /\ UNCHANGED <<up, starts, link, cached, open, reused, again, history>>
    BY <1>7 DEF Receive, ReceiveHello, ReceiveOther, ReceiveSession, ReceiveFind, ReceiveResult
  <2>2. Head(inbox) \in Frames /\ inbox' \in Seq(Frames)
    BY <2>1, RangeOfTail DEF TypeOK
  <2>3. Head(inbox).call \in Calls
    BY <2>2 DEF Frames
  <2>4. CASE ReceiveHello(c)
    BY <2>1, <2>2, <2>4, CommandType DEF ReceiveHello, TypeOK
  <2>5. CASE ReceiveOther(c)
    BY <2>1, <2>2, <2>5, ReturnType DEF ReceiveOther, TypeOK, Outcomes
  <2>6. CASE ReceiveSession(c)
    <3>1. FirstCommand(c) \in {"session", "find", "work"}
      BY DEF FirstCommand
    <3> QED
      BY <2>1, <2>2, <2>6, <3>1, CommandType DEF ReceiveSession, TypeOK
  <2>7. CASE ReceiveFind(c)
    <3>1. CASE Command(c, "work")
      BY <2>1, <2>2, <2>7, <3>1, CommandType DEF ReceiveFind, TypeOK
    <3>2. CASE Return(c, Head(inbox).call) /\ UNCHANGED <<todo, msgId, req>>
      BY <2>1, <2>2, <2>3, <2>7, <3>2, ReturnType DEF ReceiveFind, TypeOK
    <3> QED
      BY <2>7, <3>1, <3>2 DEF ReceiveFind
  <2>8. CASE ReceiveResult(c)
    BY <2>1, <2>2, <2>3, <2>8, ReturnType DEF ReceiveResult, TypeOK
  <2> QED
    BY <1>7, <2>4, <2>5, <2>6, <2>7, <2>8 DEF Receive
<1>8. ASSUME NEW c \in Calls, Lost(c) PROVE TypeOK'
  BY <1>8, FailType DEF Lost, TypeOK
<1>9. ASSUME NEW c \in Calls, TimeOut(c) PROVE TypeOK'
  <2>1. calm' \in [Calls -> BOOLEAN]
    BY <1>9 DEF TimeOut, TypeOK
  <2>2. CASE Fail(c)
    BY <1>9, <2>1, <2>2, FailType DEF TimeOut, TypeOK
  <2>3. CASE Return(c, "raised") /\ owed' = (owed \/ ready)
             /\ UNCHANGED <<todo, connection, msgId, req, again>>
    <3>1. owed' \in BOOLEAN
      BY <2>3 DEF TypeOK
    <3> QED
      BY <1>9, <2>1, <2>3, <3>1, ReturnType DEF TimeOut, TypeOK, Outcomes
  <2> QED
    BY <1>9, <2>2, <2>3 DEF TimeOut
<1>10. CASE UNCHANGED vars
  BY <1>10 DEF vars, TypeOK
<1> QED
  BY <1>1, <1>2, <1>3, <1>4, <1>5, <1>6, <1>7, <1>8, <1>9, <1>10 DEF Next, Call

\* Every variable keeps its type, however Firefox comes and goes.
THEOREM MarionetteTypeCorrect == Spec => []TypeOK
<1> QED
  BY MarionetteInitType, MarionetteNextType, PTL DEF Spec
-----------------------------------------------------------------------------
(***************************************************************************)
(* Counting what Firefox has yet to execute.                               *)
(***************************************************************************)
\* A part of a finite set is no larger, and smaller if an element is missing.
LEMMA FewerToRun ==
  ASSUME NEW S, IsFiniteSet(S), NEW T, T \subseteq S
  PROVE  /\ IsFiniteSet(T) /\ Cardinality(T) \in Nat /\ Cardinality(S) \in Nat
         /\ Cardinality(T) <= Cardinality(S)
         /\ \A x \in S : x \notin T => Cardinality(T) + 1 <= Cardinality(S)
<1>1. IsFiniteSet(T) /\ Cardinality(T) <= Cardinality(S)
  BY FS_Subset
<1>2. Cardinality(T) \in Nat /\ Cardinality(S) \in Nat
  BY <1>1, FS_CardinalityType
<1>3. ASSUME NEW x \in S, x \notin T PROVE Cardinality(T) + 1 <= Cardinality(S)
  <2>1. IsFiniteSet(S \ {x}) /\ Cardinality(S \ {x}) = Cardinality(S) - 1
    BY <1>3, FS_RemoveElement
  <2>2. T \in SUBSET (S \ {x})
    BY <1>3
  <2>3. Cardinality(T) <= Cardinality(S \ {x})
    BY <2>1, <2>2, FS_Subset
  <2> QED
    BY <1>2, <2>1, <2>3
<1> QED
  BY <1>1, <1>2, <1>3

\* One more command is at most one more to execute.
LEMMA OneMoreToRun ==
  ASSUME NEW S, IsFiniteSet(S), NEW x
  PROVE  /\ IsFiniteSet(S \cup {x}) /\ Cardinality(S \cup {x}) \in Nat /\ Cardinality(S) \in Nat
         /\ Cardinality(S \cup {x}) <= Cardinality(S) + 1
<1>1. /\ IsFiniteSet(S \cup {x})
      /\ Cardinality(S \cup {x}) = IF x \in S THEN Cardinality(S) ELSE Cardinality(S) + 1
  BY FS_AddElement
<1>2. Cardinality(S \cup {x}) \in Nat /\ Cardinality(S) \in Nat
  BY <1>1, FS_CardinalityType
<1> QED
  BY <1>1, <1>2

\* What a call may have had executed is a number from 0 to 2.
LEMMA AttemptsType ==
  ASSUME NEW c \in Calls
  PROVE  Attempts(c) \in 0 .. 2
  BY DEF Attempts

-----------------------------------------------------------------------------
(***************************************************************************)
(* The invariant, one kind of step at a time.                              *)
(***************************************************************************)
\* With nothing sent and nothing executed the invariant holds.
LEMMA MarionetteInitInvariant == Init => MarionetteInvariant
<1> SUFFICES ASSUME Init PROVE MarionetteInvariant
  OBVIOUS
<1>1. Range(inbox) = {} /\ Range(todo) = {}
  BY RangeOfNone DEF Init
<1>2. FramesAreTrue
  BY <1>1 DEF FramesAreTrue
<1>3. TasksAreTrue
  BY <1>1 DEF TasksAreTrue, Init
<1>4. ASSUME NEW c \in Calls PROVE CallAt(c)
  <2>1. ToRun(c) = {}
    BY <1>1 DEF ToRun
  <2>2. runs[c] = 0 /\ Attempts(c) = 0
    BY DEF Init, Attempts
  <2> QED
    BY <2>1, <2>2, FS_EmptySet DEF CallAt, Init
<1>5. AnswerIsOwn
  BY MarionetteAssumption DEF AnswerIsOwn, Init, Outcomes
<1> QED
  BY <1>2, <1>3, <1>4, <1>5, MarionetteInitType DEF MarionetteInvariant

\* A call that returns or raises keeps its account, and answers what is its own.
LEMMA ReturnKeeps ==
  ASSUME MarionetteInvariant, TypeOK', NEW c \in Calls, NEW what, Return(c, what),
         pc[c] # "done",
         what \in Calls => what = c /\ (c \in Shots \/ runs[c] > 0),
         Range(inbox') \subseteq Range(inbox),
         UNCHANGED <<todo, msgId, req, reused, again, runs>>
  PROVE  MarionetteInvariant'
<1>1. /\ pc'[c] = "done" /\ answer'[c] = what
      /\ \A d \in Calls : d # c => pc'[d] = pc[d] /\ answer'[d] = answer[d]
  BY DEF Return, MarionetteInvariant, TypeOK
<1>2. ASSUME NEW m, Belongs(m) PROVE Belongs(m)'
  BY <1>1, <1>2 DEF Belongs, InCommand
<1>3. FramesAreTrue'
  BY <1>2 DEF FramesAreTrue, MarionetteInvariant, Range
<1>4. TasksAreTrue'
  BY <1>2 DEF TasksAreTrue, MarionetteInvariant, Range
<1>5. ASSUME NEW d \in Calls PROVE CallAt(d)'
  <2>1. CallAt(d) /\ ToRun(d)' = ToRun(d)
    BY DEF MarionetteInvariant, ToRun, Range
  <2>2. Attempts(d) <= Attempts(d)' /\ Attempts(d) \in Nat /\ Attempts(d)' \in Nat
    BY <1>1 DEF Attempts
  <2>3. Cardinality(ToRun(d)) \in Nat /\ runs[d] \in Nat
    BY <2>1, FS_CardinalityType DEF CallAt, MarionetteInvariant, TypeOK
  <2>4. runs'[d] + Cardinality(ToRun(d)') <= Attempts(d)'
    BY <2>1, <2>2, <2>3 DEF CallAt
  <2>5. /\ req'[d] <= msgId' /\ (pc'[d] = "find" => d \in Shots)
        /\ (pc'[d] = "idle" => ~ again'[d]) /\ (again'[d] => reused'[d])
    BY <1>1, <2>1 DEF CallAt
  <2> QED
    BY <2>1, <2>4, <2>5 DEF CallAt
<1>6. AnswerIsOwn'
  BY <1>1 DEF AnswerIsOwn, MarionetteInvariant
<1> QED
  BY <1>3, <1>4, <1>5, <1>6 DEF MarionetteInvariant

\* A command gets a number no task or frame has, and no other call waits for.
LEMMA CommandKeeps ==
  ASSUME MarionetteInvariant, TypeOK', NEW c \in Calls,
         NEW what \in {"session", "find", "work"}, Command(c, what),
         what = "find" => c \in Shots,
         pc[c] \in {"idle", "hello", "session", "find"},
         Range(inbox') \subseteq Range(inbox), UNCHANGED <<again, runs>>,
         \A d \in Calls : again[d] => reused'[d]
  PROVE  MarionetteInvariant'
<1>1. /\ pc'[c] = what /\ req'[c] \in {0, msgId + 1} /\ answer' = answer
      /\ \A d \in Calls : d # c => pc'[d] = pc[d] /\ req'[d] = req[d]
  BY DEF Command, Await, MarionetteInvariant, TypeOK
<1>2. msgId' = msgId + 1 /\ msgId \in Nat
  BY DEF Command, MarionetteInvariant, TypeOK
<1>3. TypeOK /\ todo \in Seq(Tasks) /\ inbox \in Seq(Frames) /\ link \in Nat
  BY DEF MarionetteInvariant, TypeOK
<1>a. PICK task \in Tasks : task = [what |-> what, id |-> msgId + 1, call |-> c, link |-> link]
  <2>1. [what |-> what, id |-> msgId + 1, call |-> c, link |-> link] \in Tasks
    BY <1>2, <1>3 DEF Tasks, Waits
  <2> QED
    BY <2>1
<1>4. /\ todo' = Append(todo, task) \/ todo' = todo
      /\ Range(todo') = Range(todo) \cup {task} \/ Range(todo') = Range(todo)
  <2>1. todo' = Append(todo, task) \/ todo' = todo
    BY <1>2, <1>a DEF Command
  <2>2. Range(Append(todo, task)) = Range(todo) \cup {task}
    BY <1>3, RangeOfAppend
  <2> QED
    BY <2>1, <2>2
<1>5. ASSUME NEW m, m \in Range(inbox) \cup Range(todo), Belongs(m) PROVE Belongs(m)'
  <2>1. m.id \in Nat
    <3>1. Range(inbox) \subseteq Frames /\ Range(todo) \subseteq Tasks
      BY <1>3, RangeType
    <3> QED
      BY <1>5, <3>1 DEF Tasks, Frames
  <2>2. ASSUME m.what # "hello" PROVE m.id # 0 /\ m.id <= msgId' /\ m.id # msgId + 1
    BY <1>2, <1>5, <2>1, <2>2 DEF Belongs
  <2>3. ASSUME m.what # "hello", NEW d \in Calls, InCommand(d)', req'[d] = m.id
        PROVE  m.call = d /\ m.what = pc'[d]
    <3>1. d # c
      BY <1>1, <2>2, <2>3
    <3> QED
      BY <1>1, <1>5, <2>3, <3>1 DEF Belongs, InCommand
  <2> QED
    BY <2>2, <2>3 DEF Belongs
<1>6. Belongs(task)'
  <2>1. ASSUME NEW d \in Calls, req'[d] = msgId + 1 PROVE d = c
    BY <1>1, <1>2, <2>1 DEF MarionetteInvariant, CallAt, TypeOK
  <2> QED
    BY <1>1, <1>2, <1>a, <2>1 DEF Belongs
<1>7. FramesAreTrue'
  BY <1>5 DEF FramesAreTrue, MarionetteInvariant, Range
<1>8. TasksAreTrue'
  <2>1. \A m \in Range(todo') : Belongs(m)'
    BY <1>4, <1>5, <1>6 DEF TasksAreTrue, MarionetteInvariant
  <2>2. ASSUME NEW i \in DOMAIN todo', NEW j \in DOMAIN todo',
               todo'[i].what # "hello", todo'[j].what # "hello", todo'[i].id = todo'[j].id
        PROVE  i = j
    <3>1. CASE todo' = todo
      BY <2>2, <3>1 DEF TasksAreTrue, MarionetteInvariant
    <3>2. CASE todo' = Append(todo, task)
      <4>1. /\ \A k \in 1 .. Len(todo) : Append(todo, task)[k] = todo[k]
            /\ Append(todo, task)[Len(todo) + 1] = task
            /\ DOMAIN Append(todo, task) = 1 .. Len(todo) + 1
            /\ Len(todo) \in Nat /\ DOMAIN todo = 1 .. Len(todo)
        BY <1>3, AppendProperties, LenProperties
      <4>2. \A k \in 1 .. Len(todo) : todo[k].what # "hello" => todo[k].id <= msgId
        BY <4>1 DEF TasksAreTrue, MarionetteInvariant, Belongs, Range
      <4>3. \A k \in 1 .. Len(todo) : todo[k].what # "hello" => todo[k].id # task.id
        BY <1>2, <1>a, <4>2
      <4>4. i \in 1 .. Len(todo) + 1 /\ j \in 1 .. Len(todo) + 1
        BY <2>2, <3>2, <4>1
      <4>5. CASE i \in 1 .. Len(todo) /\ j \in 1 .. Len(todo)
        BY <2>2, <3>2, <4>1, <4>5 DEF TasksAreTrue, MarionetteInvariant
      <4>6. CASE i = Len(todo) + 1 /\ j \in 1 .. Len(todo)
        BY <2>2, <3>2, <4>1, <4>3, <4>6
      <4>7. CASE j = Len(todo) + 1 /\ i \in 1 .. Len(todo)
        BY <2>2, <3>2, <4>1, <4>3, <4>7
      <4>8. CASE i = Len(todo) + 1 /\ j = Len(todo) + 1
        BY <4>8
      <4> QED
        BY <4>1, <4>4, <4>5, <4>6, <4>7, <4>8
    <3> QED
      BY <1>4, <3>1, <3>2
  <2> QED
    BY <2>1, <2>2 DEF TasksAreTrue
<1>9. ASSUME NEW d \in Calls PROVE CallAt(d)'
  <2>1. CallAt(d) /\ runs[d] \in Nat /\ Attempts(d) \in 0 .. 2 /\ Attempts(d)' \in Nat
    BY AttemptsType DEF MarionetteInvariant, TypeOK, Attempts
  <2>2. /\ Attempts(d) <= Attempts(d)'
        /\ d = c /\ what = "work" => Attempts(d) + 1 <= Attempts(d)'
    BY <1>1 DEF Attempts
  <2>3. ToRun(d)' = {m.id : m \in {n \in Range(todo') : n.what = "work" /\ n.call = d}}
    BY DEF ToRun, Range
  <2>4. CASE d = c /\ what = "work" /\ Range(todo') = Range(todo) \cup {task}
    <3>1. ToRun(d)' = ToRun(d) \cup {msgId + 1}
      BY <1>a, <2>3, <2>4 DEF ToRun
    <3>2. /\ IsFiniteSet(ToRun(d)') /\ Cardinality(ToRun(d)') \in Nat
          /\ Cardinality(ToRun(d)) \in Nat
          /\ Cardinality(ToRun(d)') <= Cardinality(ToRun(d)) + 1
      BY <2>1, <3>1, OneMoreToRun DEF CallAt
    <3>3. runs'[d] + Cardinality(ToRun(d)') <= Attempts(d)'
      BY <2>1, <2>2, <2>4, <3>2 DEF CallAt
    <3> QED
      BY <1>1, <1>2, <2>1, <2>4, <3>2, <3>3 DEF CallAt
  <2>5. CASE ~ (d = c /\ what = "work" /\ Range(todo') = Range(todo) \cup {task})
    <3>1. ToRun(d)' = ToRun(d)
      BY <1>4, <1>a, <2>3, <2>5 DEF ToRun
    <3>2. IsFiniteSet(ToRun(d)') /\ Cardinality(ToRun(d)') \in Nat
      BY <2>1, <3>1, FS_CardinalityType DEF CallAt
    <3>3. runs'[d] + Cardinality(ToRun(d)') <= Attempts(d)'
      BY <2>1, <2>2, <3>1, <3>2 DEF CallAt
    <3>4. req'[d] <= msgId'
      <4>1. req[d] \in Nat /\ req[d] <= msgId
        BY <1>3, <2>1 DEF CallAt, TypeOK
      <4> QED
        BY <1>1, <1>2, <4>1
    <3> QED
      BY <1>1, <2>1, <3>2, <3>3, <3>4 DEF CallAt
  <2> QED
    BY <2>4, <2>5
<1>10. AnswerIsOwn'
  BY <1>1 DEF AnswerIsOwn, MarionetteInvariant
<1> QED
  BY <1>7, <1>8, <1>9, <1>10 DEF MarionetteInvariant
\* A call that waits for a greeting is counted as before its first command: on
\* its first attempt, or on its second after one that was given up.
LEMMA GreetingKeeps ==
  ASSUME MarionetteInvariant, TypeOK', NEW c \in Calls, Await(c, "hello"),
         \/ again' = again /\ pc[c] = "idle"
         \/ again' = [again EXCEPT ![c] = TRUE] /\ MayRetry(c) /\ pc[c] \in Waits,
         \A d \in Calls : reused[d] => reused'[d],
         Range(inbox') \subseteq Range(inbox),
         todo' = todo \/ \E n \in Nat :
           todo' = Append(todo, [what |-> "hello", id |-> 0, call |-> c, link |-> n]),
         UNCHANGED <<msgId, req, runs>>
  PROVE  MarionetteInvariant'
<1>1. /\ pc'[c] = "hello" /\ answer' = answer
      /\ \A d \in Calls : d # c => pc'[d] = pc[d]
  BY DEF Await, MarionetteInvariant, TypeOK
<1>2. TypeOK /\ todo \in Seq(Tasks)
  BY DEF MarionetteInvariant, TypeOK
<1>3. ASSUME NEW m, Belongs(m) PROVE Belongs(m)'
  BY <1>1, <1>3 DEF Belongs, InCommand
<1>4. todo' = todo \/ \E task \in Tasks : task.what = "hello" /\ todo' = Append(todo, task)
  <2>1. \A n \in Nat : [what |-> "hello", id |-> 0, call |-> c, link |-> n] \in Tasks
    BY DEF Tasks, Waits
  <2> QED
    BY <2>1
<1>5. FramesAreTrue'
  BY <1>3 DEF FramesAreTrue, MarionetteInvariant, Range
<1>6. /\ TasksAreTrue'
      /\ \A m \in Range(todo') : m.what # "hello" => m \in Range(todo)
      /\ Range(todo) \subseteq Range(todo')
  <2>1. CASE todo' = todo
    BY <1>3, <2>1 DEF TasksAreTrue, MarionetteInvariant, Range
  <2>2. ASSUME NEW task \in Tasks, task.what = "hello", todo' = Append(todo, task)
        PROVE  /\ TasksAreTrue'
               /\ \A m \in Range(todo') : m.what # "hello" => m \in Range(todo)
               /\ Range(todo) \subseteq Range(todo')
    <3>1. /\ \A k \in 1 .. Len(todo) : Append(todo, task)[k] = todo[k]
          /\ Append(todo, task)[Len(todo) + 1] = task
          /\ DOMAIN Append(todo, task) = 1 .. Len(todo) + 1
          /\ Len(todo) \in Nat /\ DOMAIN todo = 1 .. Len(todo)
      BY <1>2, AppendProperties, LenProperties
    <3>2. Range(Append(todo, task)) = Range(todo) \cup {task}
      BY <1>2, RangeOfAppend
    <3>3. \A m \in Range(todo') : Belongs(m)'
      BY <1>3, <2>2, <3>2 DEF TasksAreTrue, MarionetteInvariant, Belongs
    <3>4. \A k \in DOMAIN todo' :
            todo'[k].what # "hello" => k \in DOMAIN todo /\ todo'[k] = todo[k]
      <4>1. todo' = Append(todo, task) /\ DOMAIN todo' = 1 .. Len(todo) + 1
        BY <2>2, <3>1
      <4>2. ASSUME NEW k \in 1 .. Len(todo) + 1, todo'[k].what # "hello"
            PROVE  k \in 1 .. Len(todo)
        <5>1. k # Len(todo) + 1
          BY <2>2, <3>1, <4>1, <4>2
        <5> QED
          BY <3>1, <4>2, <5>1
      <4> QED
        BY <3>1, <4>1, <4>2
    <3>5. \A k, l \in DOMAIN todo' :
            todo'[k].what # "hello" /\ todo'[l].what # "hello" /\ todo'[k].id = todo'[l].id => k = l
      BY <3>4 DEF TasksAreTrue, MarionetteInvariant
    <3> QED
      BY <2>2, <3>2, <3>3, <3>5 DEF TasksAreTrue
  <2> QED
    BY <1>4, <2>1, <2>2
<1>7. ASSUME NEW d \in Calls PROVE CallAt(d)'
  <2>1. CallAt(d) /\ runs[d] \in Nat /\ Attempts(d) \in 0 .. 2 /\ Attempts(d)' \in Nat
    BY <1>2, AttemptsType DEF MarionetteInvariant, TypeOK, Attempts
  <2>2. ToRun(d)' = ToRun(d)
    <3>1. ToRun(d)' = {m.id : m \in {n \in Range(todo') : n.what = "work" /\ n.call = d}}
      BY DEF ToRun, Range
    <3> QED
      BY <1>6, <3>1 DEF ToRun
  <2>3. Attempts(d) <= Attempts(d)'
    <3>1. CASE d # c
      <4>1. again'[d] = again[d] /\ pc'[d] = pc[d]
        BY <1>1, <1>2, <3>1 DEF TypeOK
      <4> QED
        BY <4>1 DEF Attempts
    <3>2. CASE d = c /\ again' = again /\ pc[c] = "idle"
      BY <1>1, <3>2 DEF Attempts
    <3>3. CASE d = c /\ again' = [again EXCEPT ![c] = TRUE] /\ MayRetry(c) /\ pc[c] \in Waits
      <4>1. again'[c] /\ ~ again[c] /\ pc[c] # "done"
        BY <1>2, <3>3 DEF MayRetry, TypeOK, Waits
      <4> QED
        BY <1>1, <3>3, <4>1 DEF Attempts
    <3> QED
      BY <3>1, <3>2, <3>3
  <2>4. Cardinality(ToRun(d)) \in Nat
    BY <2>1, FS_CardinalityType DEF CallAt
  <2>5. runs'[d] + Cardinality(ToRun(d)') <= Attempts(d)'
    BY <2>1, <2>2, <2>3, <2>4 DEF CallAt
  <2>6. again'[d] => reused'[d]
    BY <1>2, <2>1 DEF CallAt, MayRetry, TypeOK
  <2>7. pc'[d] = "idle" => ~ again'[d]
    BY <1>1, <1>2, <2>1 DEF CallAt, TypeOK
  <2> QED
    BY <1>1, <2>1, <2>2, <2>5, <2>6, <2>7 DEF CallAt
<1>8. AnswerIsOwn'
  BY <1>1 DEF AnswerIsOwn, MarionetteInvariant
<1> QED
  BY <1>5, <1>6, <1>7, <1>8 DEF MarionetteInvariant

\* A new connection is waiting for its greeting.
LEMMA ConnectKeeps ==
  ASSUME MarionetteInvariant, TypeOK', NEW c \in Calls, Connect(c),
         \/ again' = again /\ pc[c] = "idle"
         \/ again' = [again EXCEPT ![c] = TRUE] /\ MayRetry(c) /\ pc[c] \in Waits,
         UNCHANGED <<reused, runs>>
  PROVE  MarionetteInvariant'
<1>1. Await(c, "hello") /\ UNCHANGED <<msgId, req>> /\ Range(inbox') \subseteq Range(inbox)
  BY RangeOfNone DEF Connect
<1>2. \E n \in Nat : todo' = Append(todo, [what |-> "hello", id |-> 0, call |-> c, link |-> n])
  BY DEF Connect, TypeOK
<1> QED
  BY <1>1, <1>2, GreetingKeeps

\* A connection that fails is given up, or is replaced for the second attempt.
LEMMA FailKeeps ==
  ASSUME MarionetteInvariant, TypeOK', NEW c \in Calls, pc[c] \in Waits, Fail(c),
         UNCHANGED <<reused, runs>>
  PROVE  MarionetteInvariant'
<1>1. "raised" \notin Calls /\ pc[c] # "done"
  BY MarionetteAssumption DEF Outcomes, Waits
<1>2. CASE Return(c, "raised") /\ UNCHANGED <<todo, connection, msgId, req, again, owed>>
  BY <1>1, <1>2, ReturnKeeps DEF connection
<1>3. CASE MayRetry(c) /\ again' = [again EXCEPT ![c] = TRUE] /\ Connect(c)
  BY <1>3, ConnectKeeps
<1>4. CASE Drop /\ Return(c, "raised") /\ UNCHANGED <<todo, link, open, msgId, req, again>>
  <2>1. Range(inbox') \subseteq Range(inbox)
    BY <1>4, RangeOfNone DEF Drop
  <2> QED
    BY <1>1, <1>4, <2>1, ReturnKeeps
<1> QED
  BY <1>2, <1>3, <1>4 DEF Fail
\* Firefox executes what it was sent first: it has one less to execute for the
\* call, which has had one more executed.
LEMMA ServeKeeps == MarionetteInvariant /\ TypeOK' /\ Serve => MarionetteInvariant'
<1> SUFFICES ASSUME MarionetteInvariant, TypeOK', Serve PROVE MarionetteInvariant'
  OBVIOUS
<1>1. PICK task \in Tasks : task = Head(todo)
  <2>1. Head(todo) \in Tasks
    BY RangeOfTail DEF Serve, MarionetteInvariant, TypeOK
  <2> QED
    BY <2>1
<1>2. /\ todo \in Seq(Tasks) /\ task \in Range(todo) /\ Range(todo') \subseteq Range(todo)
      /\ \A k \in DOMAIN todo' : k + 1 \in DOMAIN todo /\ todo'[k] = todo[k + 1]
      /\ 1 \in DOMAIN todo /\ task = todo[1] /\ DOMAIN todo' \subseteq Nat \ {0}
  BY <1>1, RangeOfTail DEF Serve, MarionetteInvariant, TypeOK
<1>3. Execute(task) /\ UNCHANGED <<msgId, pc, req, reused, again, answer>>
  BY <1>1 DEF Serve, calls
<1>4. /\ task.call \in Calls
      /\ \A d \in Calls : /\ runs[d] \in Nat
                          /\ runs'[d] = IF task.what = "work" /\ task.call = d
                                          THEN runs[d] + 1 ELSE runs[d]
  BY <1>3, ExecuteType DEF MarionetteInvariant, TypeOK
<1>5. ASSUME NEW m, Belongs(m) PROVE Belongs(m)'
  BY <1>3, <1>5 DEF Belongs, InCommand
<1>6. FramesAreTrue'
  <2>1. ASSUME NEW m \in Range(inbox) PROVE Belongs(m)' /\ (m.what = "work" => runs'[m.call] > 0)
    <3>1. Belongs(m) /\ (m.what = "work" => runs[m.call] > 0)
      BY <2>1 DEF FramesAreTrue, MarionetteInvariant
    <3>2. m.call \in Calls
      <4>1. Range(inbox) \subseteq Frames
        BY RangeType DEF MarionetteInvariant, TypeOK
      <4> QED
        BY <2>1, <4>1 DEF Frames
    <3> QED
      BY <1>4, <1>5, <3>1, <3>2
  <2>2. ASSUME NEW ok \in BOOLEAN,
               NEW m, m = [what |-> task.what, id |-> task.id, call |-> task.call, ok |-> ok]
        PROVE  m \in Frames /\ Belongs(m)' /\ (m.what = "work" => runs'[m.call] > 0)
    <3>1. m \in Frames
      BY <2>2 DEF Tasks, Frames
    <3>2. Belongs(task)'
      BY <1>2, <1>5 DEF TasksAreTrue, MarionetteInvariant
    <3>3. Belongs(m)'
      BY <2>2, <3>2 DEF Belongs
    <3>4. m.what = "work" => runs'[m.call] > 0
      BY <1>4, <2>2
    <3> QED
      BY <3>1, <3>3, <3>4
  <2>3. CASE inbox' = inbox
    BY <2>1, <2>3 DEF FramesAreTrue
  <2>4. ASSUME NEW ok \in BOOLEAN,
               inbox' = Append(inbox, [what |-> task.what, id |-> task.id,
                                       call |-> task.call, ok |-> ok])
        PROVE  FramesAreTrue'
    <3>1. PICK m \in Frames :
            m = [what |-> task.what, id |-> task.id, call |-> task.call, ok |-> ok]
      BY <2>2
    <3>2. Range(inbox') = Range(inbox) \cup {m}
      BY <2>4, <3>1, RangeOfAppend DEF MarionetteInvariant, TypeOK
    <3> QED
      BY <2>1, <2>2, <3>1, <3>2 DEF FramesAreTrue
  <2> QED
    BY <1>1, <2>3, <2>4 DEF Serve
<1>7. TasksAreTrue'
  <2>1. \A m \in Range(todo') : Belongs(m)'
    BY <1>2, <1>5 DEF TasksAreTrue, MarionetteInvariant
  <2>2. \A k, l \in DOMAIN todo' :
          todo'[k].what # "hello" /\ todo'[l].what # "hello" /\ todo'[k].id = todo'[l].id => k = l
    <3> SUFFICES ASSUME NEW k \in DOMAIN todo', NEW l \in DOMAIN todo',
                        todo'[k].what # "hello", todo'[l].what # "hello", todo'[k].id = todo'[l].id
                 PROVE  k = l
      OBVIOUS
    <3>1. k + 1 = l + 1
      BY <1>2 DEF TasksAreTrue, MarionetteInvariant
    <3> QED
      BY <1>2, <3>1
  <2> QED
    BY <2>1, <2>2 DEF TasksAreTrue
<1>8. ASSUME NEW d \in Calls PROVE CallAt(d)'
  <2>1. CallAt(d) /\ Attempts(d)' = Attempts(d) /\ Attempts(d) \in 0 .. 2
    BY <1>3, AttemptsType DEF MarionetteInvariant, Attempts
  <2>2. ToRun(d)' = {m.id : m \in {n \in Range(todo') : n.what = "work" /\ n.call = d}}
    BY DEF ToRun, Range
  <2>3. ToRun(d)' \subseteq ToRun(d)
    BY <1>2, <2>2 DEF ToRun
  <2>4. task.what = "work" /\ task.call = d => task.id \in ToRun(d) /\ task.id \notin ToRun(d)'
    <3> SUFFICES ASSUME task.what = "work", task.call = d
                 PROVE  task.id \in ToRun(d) /\ task.id \notin ToRun(d)'
      OBVIOUS
    <3>1. task.id \in ToRun(d)
      BY <1>2 DEF ToRun
    <3>2. ASSUME NEW m \in Range(todo'), m.what = "work", m.id = task.id PROVE FALSE
      <4>1. PICK k \in DOMAIN todo' : m = todo'[k]
        BY <3>2 DEF Range
      <4>2. k + 1 \in DOMAIN todo /\ m = todo[k + 1]
        BY <1>2, <4>1
      <4>3. k + 1 = 1
        BY <1>2, <3>2, <4>2 DEF TasksAreTrue, MarionetteInvariant
      <4> QED
        BY <1>2, <4>1, <4>3
    <3> QED
      BY <2>2, <3>1, <3>2
  <2>5. /\ IsFiniteSet(ToRun(d)') /\ Cardinality(ToRun(d)') \in Nat
        /\ Cardinality(ToRun(d)) \in Nat /\ Cardinality(ToRun(d)') <= Cardinality(ToRun(d))
        /\ task.what = "work" /\ task.call = d
             => Cardinality(ToRun(d)') + 1 <= Cardinality(ToRun(d))
    BY <2>1, <2>3, <2>4, FewerToRun DEF CallAt
  <2>6. runs'[d] + Cardinality(ToRun(d)') <= Attempts(d)'
    BY <1>4, <2>1, <2>5 DEF CallAt
  <2> QED
    BY <1>3, <2>1, <2>5, <2>6 DEF CallAt
<1>9. AnswerIsOwn'
  BY <1>3, <1>4 DEF AnswerIsOwn, MarionetteInvariant
<1> QED
  BY <1>6, <1>7, <1>8, <1>9 DEF MarionetteInvariant

\* A Firefox that stops has executed at most what it was at.
LEMMA FirefoxStopsKeeps == MarionetteInvariant /\ TypeOK' /\ FirefoxStops => MarionetteInvariant'
<1> SUFFICES ASSUME MarionetteInvariant, TypeOK', FirefoxStops PROVE MarionetteInvariant'
  OBVIOUS
<1>1. /\ todo' = <<>> /\ Range(todo') = {} /\ inbox' = inbox
      /\ UNCHANGED <<msgId, pc, req, reused, again, answer>>
  BY RangeOfNone DEF FirefoxStops, calls
<1>2. ASSUME NEW d \in Calls
      PROVE  /\ runs[d] \in Nat /\ runs'[d] \in Nat /\ runs[d] <= runs'[d]
             /\ runs'[d] = runs[d] \/ (runs'[d] = runs[d] + 1 /\ ToRun(d) # {})
  <2>1. runs[d] \in Nat
    BY DEF MarionetteInvariant, TypeOK
  <2>2. CASE runs' = runs
    BY <2>1, <2>2
  <2>3. CASE todo # <<>> /\ Execute(Head(todo))
    <3>1. PICK task \in Tasks : task = Head(todo) /\ task \in Range(todo)
      <4>1. Head(todo) \in Tasks /\ Head(todo) \in Range(todo)
        BY <2>3, RangeOfTail DEF MarionetteInvariant, TypeOK
      <4> QED
        BY <4>1
    <3>2. runs'[d] = IF task.what = "work" /\ task.call = d THEN runs[d] + 1 ELSE runs[d]
      BY <2>3, <3>1, ExecuteType DEF MarionetteInvariant
    <3>3. task.what = "work" /\ task.call = d => task.id \in ToRun(d)
      BY <3>1 DEF ToRun
    <3> QED
      BY <2>1, <3>2, <3>3
  <2> QED
    BY <2>2, <2>3 DEF FirefoxStops
<1>3. ASSUME NEW m, Belongs(m) PROVE Belongs(m)'
  BY <1>1, <1>3 DEF Belongs, InCommand
<1>4. FramesAreTrue'
  <2> SUFFICES ASSUME NEW m \in Range(inbox)
               PROVE  Belongs(m)' /\ (m.what = "work" => runs'[m.call] > 0)
    BY <1>1 DEF FramesAreTrue
  <2>1. Belongs(m) /\ (m.what = "work" => runs[m.call] > 0)
    BY DEF FramesAreTrue, MarionetteInvariant
  <2>2. m.call \in Calls
    <3>1. Range(inbox) \subseteq Frames
      BY RangeType DEF MarionetteInvariant, TypeOK
    <3> QED
      BY <3>1 DEF Frames
  <2> QED
    BY <1>2, <1>3, <2>1, <2>2
<1>5. TasksAreTrue'
  BY <1>1 DEF TasksAreTrue
<1>6. ASSUME NEW d \in Calls PROVE CallAt(d)'
  <2>1. CallAt(d) /\ Attempts(d)' = Attempts(d) /\ Attempts(d) \in 0 .. 2
    BY <1>1, AttemptsType DEF MarionetteInvariant, Attempts
  <2>2. ToRun(d)' = {}
    BY <1>1 DEF ToRun, Range
  <2>3. IsFiniteSet(ToRun(d)') /\ Cardinality(ToRun(d)') = 0
    BY <2>2, FS_EmptySet
  <2>4. /\ Cardinality(ToRun(d)) \in Nat
        /\ ToRun(d) # {} => Cardinality(ToRun(d)) # 0
    BY <2>1, FS_CardinalityType, FS_EmptySet DEF CallAt
  <2>5. runs'[d] <= Attempts(d)
    BY <1>2, <2>1, <2>4 DEF CallAt
  <2>6. runs'[d] + Cardinality(ToRun(d)') <= Attempts(d)'
    BY <1>2, <2>1, <2>3, <2>5
  <2> QED
    BY <1>1, <2>1, <2>3, <2>6 DEF CallAt
<1>7. AnswerIsOwn'
  BY <1>1, <1>2 DEF AnswerIsOwn, MarionetteInvariant
<1> QED
  BY <1>4, <1>5, <1>6, <1>7 DEF MarionetteInvariant
\* What is of no account to the invariant keeps it.
LEMMA OthersKeep ==
  ASSUME MarionetteInvariant, TypeOK',
         UNCHANGED <<todo, inbox, msgId, pc, req, reused, again, answer, runs>>
  PROVE  MarionetteInvariant'
<1>1. FramesAreTrue' /\ TasksAreTrue'
  BY DEF FramesAreTrue, TasksAreTrue, Belongs, InCommand, Range, MarionetteInvariant
<1>2. \A c \in Calls : CallAt(c)'
  BY DEF CallAt, ToRun, Attempts, Range, MarionetteInvariant
<1>3. AnswerIsOwn'
  BY DEF AnswerIsOwn, MarionetteInvariant
<1> QED
  BY <1>1, <1>2, <1>3 DEF MarionetteInvariant

\* A frame with the number of the call's last command is the reply to it.
LEMMA ReceiveKeeps ==
  ASSUME MarionetteInvariant, TypeOK', NEW c \in Calls, Receive(c)
  PROVE  MarionetteInvariant'
<1> USE DEF firefox, connection, calls, history
<1>1. /\ inbox # <<>> /\ inbox' = Tail(inbox) /\ UNCHANGED <<reused, again, runs>>
      /\ pc[c] \in Waits
  BY DEF Receive, ReceiveHello, ReceiveOther, ReceiveSession, ReceiveFind, ReceiveResult, Waits
<1>2. Head(inbox) \in Frames /\ Head(inbox) \in Range(inbox) /\ Range(inbox') \subseteq Range(inbox)
  BY <1>1, RangeOfTail DEF MarionetteInvariant, TypeOK
<1>3. pc[c] # "done" /\ CallAt(c) /\ \A d \in Calls : again[d] => reused'[d]
  BY <1>1 DEF Waits, MarionetteInvariant, CallAt
<1>4. InCommand(c) /\ Correlates(c, Head(inbox)) =>
        Head(inbox).call = c /\ Head(inbox).what = pc[c]
  BY <1>2 DEF Correlates, MarionetteInvariant, FramesAreTrue, Belongs
<1>5. CASE ReceiveHello(c)
  BY <1>1, <1>2, <1>3, <1>5, CommandKeeps DEF ReceiveHello
<1>6. CASE ReceiveOther(c)
  <2>1. "desync" \notin Calls
    BY MarionetteAssumption DEF Outcomes
  <2> QED
    BY <1>1, <1>2, <1>3, <1>6, <2>1, ReturnKeeps DEF ReceiveOther
<1>7. CASE ReceiveSession(c)
  <2>1. FirstCommand(c) \in {"session", "find", "work"} /\ (FirstCommand(c) = "find" => c \in Shots)
    BY DEF FirstCommand
  <2> QED
    BY <1>1, <1>2, <1>3, <1>7, <2>1, CommandKeeps DEF ReceiveSession
<1>8. CASE ReceiveFind(c)
  <2>1. CASE Command(c, "work")
    BY <1>1, <1>2, <1>3, <1>8, <2>1, CommandKeeps DEF ReceiveFind
  <2>2. CASE Return(c, Head(inbox).call) /\ UNCHANGED <<todo, msgId, req>>
    <3>1. Head(inbox).call = c /\ c \in Shots
      BY <1>3, <1>4, <1>8 DEF ReceiveFind, InCommand, CallAt
    <3> QED
      BY <1>1, <1>2, <1>3, <2>2, <3>1, ReturnKeeps
  <2> QED
    BY <1>8, <2>1, <2>2 DEF ReceiveFind
<1>9. CASE ReceiveResult(c)
  <2>1. Head(inbox).call = c /\ runs[c] > 0
    BY <1>2, <1>4, <1>9 DEF ReceiveResult, InCommand, MarionetteInvariant, FramesAreTrue
  <2> QED
    BY <1>1, <1>2, <1>3, <1>9, <2>1, ReturnKeeps DEF ReceiveResult
<1> QED
  BY <1>5, <1>6, <1>7, <1>8, <1>9 DEF Receive

\* Every step keeps the invariant.
LEMMA MarionetteNextInvariant == MarionetteInvariant /\ [Next]_vars => MarionetteInvariant'
<1> SUFFICES ASSUME MarionetteInvariant, [Next]_vars PROVE MarionetteInvariant'
  OBVIOUS
<1> USE DEF firefox, connection, calls, history
<1>1. TypeOK'
  BY MarionetteNextType DEF MarionetteInvariant
<1>2. "raised" \notin Calls /\ "refused" \notin Calls
  BY MarionetteAssumption DEF Outcomes
<1>3. CASE FirefoxStarts
  BY <1>1, <1>3, OthersKeep DEF FirefoxStarts
<1>4. CASE FirefoxStops
  BY <1>1, <1>4, FirefoxStopsKeeps
<1>5. CASE Serve
  BY <1>1, <1>5, ServeKeeps
<1>6. ASSUME NEW c \in Calls, Refuse(c) PROVE MarionetteInvariant'
  BY <1>1, <1>2, <1>6, ReturnKeeps DEF Refuse
<1>7. ASSUME NEW c \in Calls, BeginReused(c) PROVE MarionetteInvariant'
  <2>1. /\ pc[c] = "idle" /\ UNCHANGED <<inbox, again, runs>>
        /\ reused' = [reused EXCEPT ![c] = TRUE]
    BY <1>7 DEF BeginReused
  <2>2. \A d \in Calls : reused[d] => reused'[d]
    BY <2>1 DEF MarionetteInvariant, TypeOK
  <2>3. \A d \in Calls : again[d] => reused'[d]
    BY <2>2 DEF MarionetteInvariant, CallAt
  <2>4. FirstCommand(c) \in {"session", "find", "work"} /\ (FirstCommand(c) = "find" => c \in Shots)
    BY DEF FirstCommand
  <2>5. Range(inbox') \subseteq Range(inbox)
    BY <2>1
  <2>6. CASE Command(c, FirstCommand(c))
    BY <1>1, <2>1, <2>3, <2>4, <2>5, <2>6, CommandKeeps
  <2>7. CASE Await(c, "hello") /\ UNCHANGED <<todo, msgId, req>>
    BY <1>1, <2>1, <2>2, <2>5, <2>7, GreetingKeeps
  <2> QED
    BY <1>7, <2>6, <2>7 DEF BeginReused
<1>8. ASSUME NEW c \in Calls, BeginFresh(c) PROVE MarionetteInvariant'
  <2>1. CASE Connect(c)
    BY <1>1, <1>8, <2>1, ConnectKeeps DEF BeginFresh
  <2>2. CASE Return(c, "raised") /\ UNCHANGED <<todo, connection, msgId, req, owed>>
    BY <1>1, <1>2, <1>8, <2>2, ReturnKeeps DEF BeginFresh
  <2> QED
    BY <1>8, <2>1, <2>2 DEF BeginFresh
<1>9. ASSUME NEW c \in Calls, Receive(c) PROVE MarionetteInvariant'
  BY <1>1, <1>9, ReceiveKeeps
<1>10. ASSUME NEW c \in Calls, Lost(c) PROVE MarionetteInvariant'
  BY <1>1, <1>10, FailKeeps DEF Lost
<1>11. ASSUME NEW c \in Calls, TimeOut(c) PROVE MarionetteInvariant'
  <2>1. CASE Fail(c)
    BY <1>1, <1>11, <2>1, FailKeeps DEF TimeOut
  <2>2. CASE Return(c, "raised") /\ UNCHANGED <<todo, connection, msgId, req, again>>
    <3>1. pc[c] # "done"
      BY <1>11 DEF TimeOut, Waits
    <3> QED
      BY <1>1, <1>2, <1>11, <2>2, <3>1, ReturnKeeps DEF TimeOut
  <2> QED
    BY <1>11, <2>1, <2>2 DEF TimeOut
<1>12. CASE UNCHANGED vars
  BY <1>1, <1>12, OthersKeep DEF vars
<1> QED
  BY <1>3, <1>4, <1>5, <1>6, <1>7, <1>8, <1>9, <1>10, <1>11, <1>12 DEF Next, Call

-----------------------------------------------------------------------------
(***************************************************************************)
(* What follows.                                                           *)
(***************************************************************************)
\* Numbers, calls and executions stay in step in every reachable state.
THEOREM MarionetteInvariantHolds == Spec => []MarionetteInvariant
<1> QED
  BY MarionetteInitInvariant, MarionetteNextInvariant, PTL DEF Spec

\* Whatever replies to commands given up are on the way, an answer is Firefox's
\* to the call's own command (marionette_adapter.py, _command).
THEOREM OwnAnswers == Spec => []AnswerIsOwn
<1>1. MarionetteInvariant => AnswerIsOwn
  BY DEF MarionetteInvariant
<1> QED
  BY <1>1, MarionetteInvariantHolds, PTL

\* No script is executed three times, and twice only on the retry of a call that
\* found its connection in the cache (marionette_adapter.py, _with_reconnect).
THEOREM SecondRunNeedsReuse == Spec => []TwiceOnlyWhenReused
<1>1. MarionetteInvariant => TwiceOnlyWhenReused
  <2> SUFFICES ASSUME MarionetteInvariant, NEW c \in Calls
               PROVE  runs[c] <= 2 /\ (runs[c] = 2 => reused[c] /\ again[c])
    BY DEF TwiceOnlyWhenReused
  <2>1. CallAt(c) /\ runs[c] \in Nat
    BY DEF MarionetteInvariant, TypeOK
  <2>2. Cardinality(ToRun(c)) \in Nat
    BY <2>1, FS_CardinalityType DEF CallAt
  <2>3. runs[c] <= Attempts(c)
    BY <2>1, <2>2, AttemptsType DEF CallAt
  <2> QED
    BY <2>1, <2>3 DEF Attempts, CallAt
<1> QED
  BY <1>1, MarionetteInvariantHolds, PTL

-----------------------------------------------------------------------------
(***************************************************************************)
(* The connection heals: what is due on it.                                *)
(***************************************************************************)
\* Whoever waits for a frame is the only call that does.
LEMMA BusyAlone ==
  ASSUME TypeOK, HealInvariant, NEW c \in Calls, Busy(c)
  PROVE  \A d \in Calls \ {c} : pc[d] \in {"idle", "done"}
  BY DEF HealInvariant, Busy, TypeOK

\* A step of one call, while the others neither wait nor change.
LEMMA StepHeals ==
  ASSUME HealInvariant, NEW c \in Calls,
         \A d \in Calls \ {c} : /\ pc[d] \in {"idle", "done"} /\ pc'[d] = pc[d]
                                /\ answer'[d] = answer[d]
                                /\ calm'[d] => calm[d]
                                /\ clean'[d] => clean[d],
         Accounted', HealsAt(c)'
  PROVE  HealInvariant'
<1>1. \A d \in Calls \ {c} : ~ Busy(d)'
  BY DEF Busy, Waits
<1>2. ASSUME NEW d \in Calls \ {c} PROVE HealsAt(d)'
  BY <1>1, <1>2 DEF HealInvariant, HealsAt
<1> QED
  BY <1>1, <1>2 DEF HealInvariant

\* A fresh connection owes its greeting and nothing else.
LEMMA ConnectHeals ==
  ASSUME TypeOK, Accounted, NEW c \in Calls, Connect(c)
  PROVE  /\ Accounted' /\ open' = TRUE /\ cached' = TRUE /\ ready' = FALSE /\ owed' = FALSE
         /\ pc'[c] = "hello" /\ \A d \in Calls \ {c} : pc'[d] = pc[d]
<1>1. /\ link' = link + 1 /\ link \in Nat /\ inbox' = <<>>
      /\ open' = TRUE /\ cached' = TRUE /\ ready' = FALSE /\ owed' = FALSE
      /\ pc'[c] = "hello" /\ \A d \in Calls \ {c} : pc'[d] = pc[d]
  BY DEF Connect, Await, TypeOK
<1>2. PICK task \in Tasks : todo' = Append(todo, task) /\ task.link = link + 1
  <2>1. [what |-> "hello", id |-> 0, call |-> c, link |-> link + 1] \in Tasks
    BY <1>1 DEF Tasks, Waits
  <2> QED
    BY <1>1, <2>1 DEF Connect
<1>3. /\ Len(todo) \in Nat /\ DOMAIN todo = 1 .. Len(todo)
      /\ DOMAIN todo' = 1 .. Len(todo) + 1
      /\ \A i \in 1 .. Len(todo) : todo'[i] = todo[i]
      /\ todo'[Len(todo) + 1] = task
  BY <1>2, AppendProperties, LenProperties DEF TypeOK
<1>4. \A i \in 1 .. Len(todo) : todo[i].link \in Nat /\ todo[i].link <= link
  <2>1. \A i \in 1 .. Len(todo) : todo[i] \in Tasks
    BY <1>3, ElementOfSeq DEF TypeOK
  <2> QED
    BY <1>3, <2>1 DEF Tasks, Accounted
<1>5. \A i \in DOMAIN todo' : todo'[i].link = link' => i = Len(todo) + 1
  BY <1>1, <1>3, <1>4
<1>6. \A i \in DOMAIN todo' : todo'[i].link <= link'
  BY <1>1, <1>2, <1>3, <1>4
<1>7. AtMostOneDue'
  BY <1>1, <1>5 DEF AtMostOneDue
<1> QED
  BY <1>1, <1>6, <1>7 DEF Accounted

\* With nothing due, a command is all that is due: its own reply.
LEMMA CommandHeals ==
  ASSUME MarionetteInvariant, Accounted, NEW c \in Calls,
         NEW what \in {"session", "find", "work"}, Command(c, what),
         ~ owed => inbox' = <<>> /\ ~ Owes,
         UNCHANGED <<link, cached, open, owed>>
  PROVE  /\ Accounted' /\ pc'[c] = what
         /\ ~ owed => OnlyOwnDue(c)'
         /\ answer' = answer /\ \A d \in Calls \ {c} : pc'[d] = pc[d]
<1>1. /\ pc'[c] = what /\ answer' = answer /\ \A d \in Calls \ {c} : pc'[d] = pc[d]
      /\ msgId' = msgId + 1 /\ msgId \in Nat /\ link \in Nat
      /\ open => req'[c] = msgId + 1
  BY DEF Command, Await, MarionetteInvariant, TypeOK
<1>2. Busy(c)'
  BY <1>1 DEF Busy, Waits
<1>3. CASE ~ open
  <2>1. todo' = todo
    BY <1>3 DEF Command
  <2>2. ~ owed => OnlyOwnDue(c)' /\ AtMostOneDue'
    <3> SUFFICES ASSUME ~ owed PROVE OnlyOwnDue(c)' /\ AtMostOneDue'
      OBVIOUS
    <3>1. inbox' = <<>> /\ Range(inbox') = {} /\ \A i \in DOMAIN todo' : todo'[i].link # link'
      BY <2>1, RangeOfNone DEF Owes
    <3> QED
      BY <3>1 DEF OnlyOwnDue, AtMostOneDue
  <2> QED
    BY <1>1, <1>2, <1>3, <2>1, <2>2 DEF Accounted, Owes
<1>4. CASE open
  <2>1. PICK task \in Tasks :
          todo' = Append(todo, task) /\ task.link = link
          /\ task.id = msgId + 1 /\ task.what = what
    <3>1. [what |-> what, id |-> msgId + 1, call |-> c, link |-> link] \in Tasks
      BY <1>1 DEF Tasks, Waits
    <3> QED
      BY <1>1, <1>4, <3>1 DEF Command
  <2>2. /\ Len(todo) \in Nat /\ DOMAIN todo = 1 .. Len(todo)
        /\ DOMAIN todo' = 1 .. Len(todo) + 1
        /\ \A i \in 1 .. Len(todo) : todo'[i] = todo[i]
        /\ todo'[Len(todo) + 1] = task
    BY <2>1, AppendProperties, LenProperties DEF MarionetteInvariant, TypeOK
  <2>3. \A i \in DOMAIN todo' : todo'[i].link <= link'
    BY <1>1, <2>1, <2>2 DEF Accounted
  <2>4. ~ owed => OnlyOwnDue(c)' /\ AtMostOneDue'
    <3> SUFFICES ASSUME ~ owed PROVE OnlyOwnDue(c)' /\ AtMostOneDue'
      OBVIOUS
    <3>1. inbox' = <<>> /\ Range(inbox') = {} /\ Len(inbox') = 0
      BY RangeOfNone, EmptySeq
    <3>2. \A i \in DOMAIN todo' : todo'[i].link = link' => i = Len(todo) + 1
      BY <2>2 DEF Owes
    <3>3. \A i \in DOMAIN todo' : todo'[i].link = link' => todo'[i] = task
      BY <2>2, <3>2
    <3>4. Correlates(c, task)'
      BY <1>1, <1>4, <2>1 DEF Correlates
    <3>5. OnlyOwnDue(c)'
      BY <3>1, <3>3, <3>4 DEF OnlyOwnDue, Correlates
    <3>6. AtMostOneDue'
      BY <3>1, <3>2 DEF AtMostOneDue
    <3> QED
      BY <3>5, <3>6
  <2> QED
    BY <1>1, <1>2, <1>4, <2>3, <2>4 DEF Accounted
<1> QED
  BY <1>3, <1>4

\* With the frame that was due taken, nothing is.
LEMMA TakenHeals ==
  ASSUME TypeOK, Accounted, cached, ~ owed, inbox # <<>>, inbox' = Tail(inbox)
  PROVE  inbox' = <<>> /\ ~ Owes
<1>1. Len(inbox) <= 1 /\ ~ Owes
  BY DEF Accounted, AtMostOneDue
<1>2. Tail(inbox) \in Seq(Frames) /\ Len(Tail(inbox)) = Len(inbox) - 1 /\ Len(inbox) \in Nat
  BY RangeOfTail, LenProperties DEF TypeOK
<1>3. Len(Tail(inbox)) \in Nat
  BY <1>2, LenProperties
<1>4. Len(Tail(inbox)) = 0
  BY <1>1, <1>2, <1>3
<1> QED
  BY <1>1, <1>2, <1>4, EmptySeq

\* A call that returns leaves nothing due on a ready connection, unless it
\* leaves a reply owed.
LEMMA ReturnHeals ==
  ASSUME TypeOK, HealInvariant, NEW c \in Calls,
         \A d \in Calls \ {c} : pc[d] \in {"idle", "done"},
         NEW what, Return(c, what),
         calm'[c] /\ clean'[c] => what \in Calls \cup {"refused"},
         \A d \in Calls \ {c} : calm'[d] = calm[d] /\ clean'[d] = clean[d],
         UNCHANGED <<todo, link, open>>, cached' => cached,
         (~ owed' /\ cached') =>
            ~ owed /\ AtMostOneDue' /\ (ready' => inbox' = <<>> /\ ~ Owes)
  PROVE  HealInvariant'
<1>1. /\ pc'[c] = "done" /\ answer'[c] = what
      /\ \A d \in Calls \ {c} : pc'[d] = pc[d] /\ answer'[d] = answer[d]
  BY DEF Return, TypeOK
<1>2. Accounted'
  BY DEF HealInvariant, Accounted, Owes
<1>3. HealsAt(c)'
  BY <1>1 DEF HealsAt, Busy, Waits
<1> QED
  BY <1>1, <1>2, <1>3, StepHeals

LEMMA HealInit == Init => HealInvariant
<1> SUFFICES ASSUME Init PROVE HealInvariant
  OBVIOUS
<1>1. Accounted
  BY DEF Init, Accounted, Owes
<1>2. \A c \in Calls : ~ Busy(c) /\ HealsAt(c)
  BY DEF Init, Busy, HealsAt, Waits
<1> QED
  BY <1>1, <1>2 DEF HealInvariant

LEMMA FailHeals ==
  ASSUME MarionetteInvariant, HealInvariant, NEW c \in Calls, Busy(c), Fail(c),
         ~ MayRetry(c) => ~ calm'[c],
         ~ up => ~ calm'[c],
         \A d \in Calls \ {c} : calm'[d] = calm[d],
         (~ MayRetry(c) /\ ~ owed /\ ready) => inbox = <<>> /\ ~ Owes,
         UNCHANGED <<up, reused, clean>>
  PROVE  HealInvariant'
<1>1. \A d \in Calls \ {c} : pc[d] \in {"idle", "done"}
  BY BusyAlone DEF MarionetteInvariant
<1>2. TypeOK /\ Accounted /\ cached
  BY DEF MarionetteInvariant, HealInvariant, HealsAt
<1>3. CASE ~ MayRetry(c)
  <2>1. /\ Return(c, "raised")
        /\ UNCHANGED <<todo, link, cached, ready, open, inbox, owed>>
    BY <1>3 DEF Fail, connection
  <2>2. ~ owed => AtMostOneDue'
    BY <1>2, <2>1 DEF Accounted, AtMostOneDue, Owes
  <2> QED
    BY <1>1, <1>2, <1>3, <2>1, <2>2, ReturnHeals
<1>4. CASE MayRetry(c) /\ up
  <2>1. Connect(c) /\ again' = [again EXCEPT ![c] = TRUE]
    BY <1>4 DEF Fail
  <2>2. /\ Accounted' /\ open' = TRUE /\ cached' = TRUE /\ ready' = FALSE /\ owed' = FALSE
        /\ pc'[c] = "hello" /\ \A d \in Calls \ {c} : pc'[d] = pc[d]
    BY <1>2, <2>1, ConnectHeals
  <2>3. answer' = answer
    BY <2>1 DEF Connect, Await
  <2>4. HealsAt(c)'
    BY <1>4, <2>2 DEF HealsAt, InCommand
  <2> QED
    BY <1>1, <2>2, <2>3, <2>4, StepHeals
<1>5. CASE MayRetry(c) /\ ~ up
  <2>1. cached' = FALSE /\ Return(c, "raised") /\ UNCHANGED <<todo, link, open>>
    BY <1>5 DEF Fail, Drop
  <2> QED
    BY <1>1, <1>2, <1>5, <2>1, ReturnHeals
<1> QED
  BY <1>3, <1>4, <1>5

LEMMA LostHeals ==
  ASSUME MarionetteInvariant, HealInvariant, NEW c \in Calls, Lost(c)
  PROVE  HealInvariant'
<1>1. /\ Busy(c) /\ ~ open /\ Fail(c) /\ UNCHANGED <<up, reused, calm, clean>>
      /\ inbox = <<>> \/ (pc[c] # "hello" /\ req[c] = 0)
  BY DEF Lost, Busy
<1>2. HealsAt(c) /\ ~ Owes
  BY <1>1 DEF HealInvariant, Accounted
<1>3. (~ MayRetry(c) => ~ calm[c]) /\ (~ up => ~ calm[c])
  BY <1>1, <1>2 DEF HealsAt
<1>4. ASSUME ~ owed PROVE inbox = <<>>
  <2> SUFFICES ASSUME inbox # <<>> PROVE FALSE
    OBVIOUS
  <2>1. InCommand(c) /\ req[c] = 0
    BY <1>1 DEF InCommand, Busy, Waits
  <2>2. Head(inbox) \in Range(inbox)
    BY RangeOfTail DEF MarionetteInvariant, TypeOK
  <2>3. Correlates(c, Head(inbox))
    BY <1>1, <1>2, <1>4, <2>1, <2>2 DEF HealsAt, OnlyOwnDue
  <2>4. Belongs(Head(inbox))
    BY <2>2 DEF MarionetteInvariant, FramesAreTrue
  <2> QED
    BY <2>1, <2>3, <2>4 DEF Correlates, Belongs
<1> QED
  BY <1>1, <1>2, <1>3, <1>4, FailHeals

LEMMA TimeOutHeals ==
  ASSUME MarionetteInvariant, HealInvariant, NEW c \in Calls, TimeOut(c)
  PROVE  HealInvariant'
<1>1. /\ Busy(c) /\ open /\ inbox = <<>> /\ UNCHANGED <<up, reused, clean>>
      /\ ~ calm'[c] /\ \A d \in Calls \ {c} : calm'[d] = calm[d]
  BY DEF TimeOut, Busy, MarionetteInvariant, TypeOK
<1>2. CASE MayRetry(c)
  BY <1>1, <1>2, FailHeals DEF TimeOut
<1>3. CASE ~ MayRetry(c)
  <2>1. /\ Return(c, "raised") /\ owed' = (owed \/ ready)
        /\ UNCHANGED <<todo, link, cached, ready, open, inbox>>
    BY <1>3 DEF TimeOut, connection
  <2>2. \A d \in Calls \ {c} : pc[d] \in {"idle", "done"}
    BY <1>1, BusyAlone DEF MarionetteInvariant
  <2>3. cached /\ (~ owed => AtMostOneDue')
    BY <1>1, <2>1 DEF HealInvariant, HealsAt, Accounted, AtMostOneDue, Owes
  <2> QED
    BY <1>1, <2>1, <2>2, <2>3, ReturnHeals DEF MarionetteInvariant
<1> QED
  BY <1>2, <1>3

LEMMA BeginHeals ==
  ASSUME MarionetteInvariant, HealInvariant, NEW c \in Calls,
         BeginReused(c) \/ BeginFresh(c)
  PROVE  HealInvariant'
<1>1. /\ pc[c] = "idle" /\ \A d \in Calls \ {c} : pc[d] \in {"idle", "done"}
      /\ calm' = [calm EXCEPT ![c] = up] /\ up' = up /\ again' = again /\ ~ again[c]
  BY DEF BeginReused, BeginFresh, Alone, MarionetteInvariant, CallAt
<1>2. calm'[c] = up /\ \A d \in Calls \ {c} : calm'[d] = calm[d]
  BY <1>1 DEF MarionetteInvariant, TypeOK
<1>3. \A d \in Calls : ~ Busy(d)
  BY <1>1 DEF Busy, Waits
<1>4. TypeOK /\ Accounted
  BY DEF MarionetteInvariant, HealInvariant
<1>5. CASE BeginReused(c)
  <2>1. /\ cached /\ UNCHANGED <<link, cached, ready, open, inbox, owed>>
        /\ reused'[c] = TRUE /\ clean'[c] = ~ owed
        /\ \A d \in Calls \ {c} : clean'[d] = clean[d]
    BY <1>4, <1>5 DEF BeginReused, connection, TypeOK
  <2>2. MayRetry(c)'
    BY <1>1, <2>1 DEF MayRetry
  <2>3. CASE ready /\ Command(c, FirstCommand(c))
    <3>1. FirstCommand(c) \in {"session", "find", "work"} /\ FirstCommand(c) # "session"
      BY DEF FirstCommand
    <3>2. ~ owed => inbox' = <<>> /\ ~ Owes
      BY <1>3, <1>4, <2>1, <2>3 DEF Accounted
    <3>3. /\ Accounted' /\ pc'[c] = FirstCommand(c)
          /\ ~ owed => OnlyOwnDue(c)'
          /\ answer' = answer /\ \A d \in Calls \ {c} : pc'[d] = pc[d]
      BY <2>1, <2>3, <3>1, <3>2, <1>4, CommandHeals
    <3>4. HealsAt(c)'
      BY <1>1, <1>2, <2>1, <2>2, <2>3, <3>1, <3>3 DEF HealsAt
    <3> QED
      BY <1>1, <1>2, <2>1, <3>3, <3>4, StepHeals
  <2>4. CASE ~ ready /\ Await(c, "hello") /\ UNCHANGED todo
    <3>1. pc'[c] = "hello" /\ answer' = answer /\ \A d \in Calls \ {c} : pc'[d] = pc[d]
      BY <1>4, <2>4 DEF Await, TypeOK
    <3>2. Accounted'
      BY <1>4, <2>1, <2>4 DEF Accounted, Owes, AtMostOneDue
    <3>3. HealsAt(c)'
      BY <1>1, <1>2, <2>1, <2>2, <2>4, <3>1 DEF HealsAt, InCommand
    <3> QED
      BY <1>1, <1>2, <2>1, <3>1, <3>2, <3>3, StepHeals
  <2> QED
    BY <1>5, <2>3, <2>4 DEF BeginReused
<1>6. CASE BeginFresh(c)
  <2>1. clean' = clean /\ ~ cached
    BY <1>6 DEF BeginFresh
  <2>2. CASE up /\ Connect(c)
    <3>1. /\ Accounted' /\ open' = TRUE /\ cached' = TRUE /\ ready' = FALSE /\ owed' = FALSE
          /\ pc'[c] = "hello" /\ \A d \in Calls \ {c} : pc'[d] = pc[d]
      BY <1>4, <2>2, ConnectHeals
    <3>2. answer' = answer
      BY <2>2 DEF Connect, Await
    <3>3. HealsAt(c)'
      BY <1>1, <2>2, <3>1 DEF HealsAt, InCommand
    <3> QED
      BY <1>1, <1>2, <2>1, <3>1, <3>2, <3>3, StepHeals
  <2>3. CASE ~ up /\ Return(c, "raised") /\ UNCHANGED <<todo, connection>>
    BY <1>1, <1>2, <1>4, <2>1, <2>3, ReturnHeals DEF connection
  <2> QED
    BY <1>6, <2>2, <2>3 DEF BeginFresh
<1> QED
  BY <1>5, <1>6

LEMMA ReceiveHeals ==
  ASSUME MarionetteInvariant, HealInvariant, NEW c \in Calls, Receive(c)
  PROVE  HealInvariant'
<1>1. /\ Busy(c) /\ inbox # <<>> /\ inbox' = Tail(inbox)
      /\ UNCHANGED <<up, link, cached, open, reused, again, calm, clean, owed>>
  BY DEF Receive, ReceiveHello, ReceiveOther, ReceiveSession, ReceiveFind, ReceiveResult,
         firefox, history, Busy, Waits
<1>2. TypeOK /\ Accounted /\ HealsAt(c) /\ cached
  BY <1>1 DEF MarionetteInvariant, HealInvariant, HealsAt
<1>3. \A d \in Calls \ {c} : pc[d] \in {"idle", "done"}
  BY <1>1, <1>2, BusyAlone
<1>4. ~ owed => inbox' = <<>> /\ ~ Owes
  BY <1>1, <1>2, TakenHeals
<1>5. ASSUME NEW what \in {"session", "find", "work"}, Command(c, what),
             ready' <=> what # "session"
      PROVE  HealInvariant'
  <2>1. /\ Accounted' /\ pc'[c] = what
        /\ ~ owed => OnlyOwnDue(c)'
        /\ answer' = answer /\ \A d \in Calls \ {c} : pc'[d] = pc[d]
    BY <1>1, <1>2, <1>4, <1>5, CommandHeals
  <2>2. HealsAt(c)'
    BY <1>1, <1>2, <1>5, <2>1 DEF HealsAt, MayRetry
  <2> QED
    BY <1>1, <1>3, <2>1, <2>2, StepHeals
<1>6. ASSUME NEW what \in Calls, Return(c, what), UNCHANGED <<todo, ready>>
      PROVE  HealInvariant'
  <2>1. ~ owed => AtMostOneDue'
    BY <1>1, <1>2, <1>4, <1>6, EmptySeq DEF Accounted, AtMostOneDue, Owes
  <2> QED
    BY <1>1, <1>2, <1>3, <1>4, <1>6, <2>1, ReturnHeals
<1>7. Head(inbox) \in Range(inbox) /\ Head(inbox).call \in Calls
  <2>1. Head(inbox) \in Frames /\ Head(inbox) \in Range(inbox)
    BY <1>1, <1>2, RangeOfTail DEF TypeOK
  <2> QED
    BY <2>1 DEF Frames
<1>8. FirstCommand(c) \in {"find", "work"}
  BY DEF FirstCommand
<1>9. CASE ReceiveHello(c)
  BY <1>2, <1>5, <1>9 DEF ReceiveHello, HealsAt, Busy, Waits
<1>10. CASE ReceiveOther(c)
  <2>1. owed
    <3> SUFFICES ASSUME ~ owed PROVE FALSE
      OBVIOUS
    <3>1. InCommand(c) /\ ~ Correlates(c, Head(inbox))
      BY <1>10 DEF ReceiveOther, InCommand
    <3> QED
      BY <1>1, <1>2, <1>7, <3>1 DEF HealsAt, OnlyOwnDue
  <2>2. ~ clean[c]
    BY <1>1, <1>2, <2>1 DEF HealsAt
  <2>3. Return(c, "desync") /\ UNCHANGED todo
    BY <1>10 DEF ReceiveOther, firefox
  <2> QED
    BY <1>1, <1>2, <1>3, <2>1, <2>2, <2>3, ReturnHeals
<1>11. CASE ReceiveSession(c)
  BY <1>5, <1>8, <1>11 DEF ReceiveSession
<1>12. CASE ReceiveFind(c)
  <2>1. ready /\ ready' = ready
    BY <1>1, <1>2, <1>12 DEF ReceiveFind, HealsAt
  <2> QED
    BY <1>5, <1>6, <1>7, <1>12, <2>1 DEF ReceiveFind
<1>13. CASE ReceiveResult(c)
  BY <1>6, <1>7, <1>13 DEF ReceiveResult, firefox
<1> QED
  BY <1>9, <1>10, <1>11, <1>12, <1>13 DEF Receive

\* A frame that arrives was due, and no other is; a reply to a connection that
\* was closed meanwhile changes nothing.
LEMMA ServeHeals == MarionetteInvariant /\ HealInvariant /\ Serve => HealInvariant'
<1> SUFFICES ASSUME MarionetteInvariant, HealInvariant, Serve PROVE HealInvariant'
  OBVIOUS
<1>1. /\ todo # <<>> /\ todo' = Tail(todo)
      /\ UNCHANGED <<up, link, cached, ready, open, msgId, pc, req, reused, again, answer,
                     calm, clean, owed>>
  BY DEF Serve, calls
<1>2. TypeOK /\ Accounted
  BY DEF MarionetteInvariant, HealInvariant
<1>3. /\ 1 \in DOMAIN todo /\ Head(todo) = todo[1]
      /\ \A i \in DOMAIN todo' : /\ i + 1 \in DOMAIN todo /\ todo'[i] = todo[i + 1]
                                 /\ i \in Nat \ {0}
  BY <1>1, <1>2, RangeOfTail DEF TypeOK
<1>4. (Owes' => Owes) /\ \A i \in DOMAIN todo' : todo'[i].link <= link'
  BY <1>1, <1>2, <1>3 DEF Owes, Accounted
<1>5. ASSUME AtMostOneDue
      PROVE  \A i, j \in DOMAIN todo' : todo'[i].link = link' /\ todo'[j].link = link' => i = j
  BY <1>1, <1>3, <1>5 DEF AtMostOneDue
<1>6. ASSUME NEW c \in Calls, OnlyOwnDue(c)
      PROVE  \A i \in DOMAIN todo' : todo'[i].link = link' =>
                 todo'[i].what # "hello" /\ todo'[i].id = req'[c]
  BY <1>1, <1>3, <1>6 DEF OnlyOwnDue, Correlates
<1>7. CASE Head(todo).link # link
  <2>1. inbox' = inbox
    BY <1>7 DEF Serve
  <2>2. Accounted'
    BY <1>1, <1>2, <1>4, <1>5, <2>1 DEF Accounted, AtMostOneDue, Busy
  <2>3. ASSUME NEW c \in Calls, OnlyOwnDue(c) PROVE OnlyOwnDue(c)'
    BY <1>1, <1>6, <2>1, <2>3 DEF OnlyOwnDue, Correlates
  <2>4. \A c \in Calls : HealsAt(c)'
    BY <1>1, <2>3 DEF HealInvariant, HealsAt, Busy, InCommand, MayRetry
  <2> QED
    BY <1>1, <2>2, <2>4 DEF HealInvariant, Busy
<1>8. CASE Head(todo).link = link
  <2>1. Owes /\ open
    BY <1>2, <1>3, <1>8 DEF Owes, Accounted
  <2>2. PICK ok \in BOOLEAN :
          inbox' = Append(inbox, [what |-> Head(todo).what, id |-> Head(todo).id,
                                  call |-> Head(todo).call, ok |-> ok])
    BY <1>8 DEF Serve
  <2>3. PICK frame \in Frames : /\ inbox' = Append(inbox, frame)
                                /\ frame.what = todo[1].what /\ frame.id = todo[1].id
    <3>1. Head(todo) \in Tasks
      BY <1>1, <1>2, RangeOfTail DEF TypeOK
    <3>2. [what |-> Head(todo).what, id |-> Head(todo).id,
           call |-> Head(todo).call, ok |-> ok] \in Frames
      BY <3>1 DEF Tasks, Frames
    <3> QED
      BY <1>3, <2>2, <3>2
  <2>4. Range(inbox') = Range(inbox) \cup {frame} /\ Len(inbox') = Len(inbox) + 1
    BY <1>2, <2>3, RangeOfAppend DEF TypeOK
  <2>5. ASSUME ~ owed, cached
        PROVE  AtMostOneDue' /\ ~ (ready /\ \A c \in Calls : ~ Busy(c))
    <3>1. AtMostOneDue /\ ~ (ready /\ \A c \in Calls : ~ Busy(c))
      BY <1>2, <2>1, <2>5 DEF Accounted
    <3>2. inbox = <<>> /\ Len(inbox') = 1
      BY <2>1, <2>4, <3>1, EmptySeq DEF AtMostOneDue
    <3>3. ~ Owes'
      <4> SUFFICES ASSUME NEW i \in DOMAIN todo', todo'[i].link = link' PROVE FALSE
        BY DEF Owes
      <4>1. i + 1 = 1
        BY <1>1, <1>3, <1>8, <3>1 DEF AtMostOneDue
      <4> QED
        BY <1>3, <4>1
    <3> QED
      BY <1>5, <3>1, <3>2, <3>3 DEF AtMostOneDue
  <2>6. Accounted'
    BY <1>1, <1>4, <2>1, <2>5 DEF Accounted, Busy
  <2>7. ASSUME NEW c \in Calls, OnlyOwnDue(c) PROVE OnlyOwnDue(c)'
    <3>1. Correlates(c, todo[1])
      BY <1>3, <1>8, <2>7 DEF OnlyOwnDue
    <3>2. \A m \in Range(inbox') : Correlates(c, m)'
      BY <1>1, <2>3, <2>4, <2>7, <3>1 DEF OnlyOwnDue, Correlates
    <3> QED
      BY <1>6, <2>7, <3>2 DEF OnlyOwnDue, Correlates
  <2>8. \A c \in Calls : HealsAt(c)'
    BY <1>1, <2>7 DEF HealInvariant, HealsAt, Busy, InCommand, MayRetry
  <2> QED
    BY <1>1, <2>6, <2>8 DEF HealInvariant, Busy
<1> QED
  BY <1>7, <1>8

LEMMA HealNext == MarionetteInvariant /\ HealInvariant /\ [Next]_vars => HealInvariant'
<1> SUFFICES ASSUME MarionetteInvariant, HealInvariant, [Next]_vars PROVE HealInvariant'
  OBVIOUS
<1>1. TypeOK /\ Accounted
  BY DEF MarionetteInvariant, HealInvariant
<1>2. CASE FirefoxStarts
  <2>1. /\ up' = TRUE
        /\ UNCHANGED <<todo, link, cached, ready, open, inbox, msgId, pc, req, reused,
                       again, answer, calm, clean, owed>>
    BY <1>2 DEF FirefoxStarts, connection, calls, history
  <2>2. Accounted'
    BY <1>1, <2>1 DEF Accounted, AtMostOneDue, Owes, Busy
  <2>3. \A c \in Calls : HealsAt(c)'
    BY <2>1 DEF HealInvariant, HealsAt, Busy, InCommand, OnlyOwnDue, Correlates, MayRetry
  <2> QED
    BY <2>1, <2>2, <2>3 DEF HealInvariant, Busy
<1>3. CASE FirefoxStops
  <2>1. /\ open' = FALSE /\ todo' = <<>>
        /\ calm' = [c \in Calls |-> calm[c] /\ pc[c] \in {"idle", "done"}]
        /\ UNCHANGED <<link, cached, ready, inbox, msgId, pc, req, reused, again, answer,
                       clean, owed>>
    BY <1>3 DEF FirefoxStops, calls
  <2>2. DOMAIN todo' = {} /\ ~ Owes'
    BY <2>1 DEF Owes
  <2>3. Accounted'
    BY <1>1, <2>1, <2>2 DEF Accounted, AtMostOneDue, Busy
  <2>4. ASSUME NEW c \in Calls PROVE HealsAt(c)'
    <3>1. HealsAt(c) /\ (Busy(c) => ~ calm'[c]) /\ (calm'[c] => calm[c])
      BY <2>1 DEF HealInvariant, Busy, Waits
    <3>2. OnlyOwnDue(c) => OnlyOwnDue(c)'
      BY <2>1, <2>2 DEF OnlyOwnDue, Correlates
    <3> QED
      BY <2>1, <3>1, <3>2 DEF HealsAt, Busy, InCommand
  <2> QED
    BY <2>1, <2>3, <2>4 DEF HealInvariant, Busy
<1>4. CASE Serve
  BY <1>4, ServeHeals
<1>5. ASSUME NEW c \in Calls, Refuse(c) PROVE HealInvariant'
  <2>1. /\ pc'[c] = "done" /\ answer'[c] = "refused" /\ ~ Busy(c)
        /\ \A d \in Calls \ {c} : pc'[d] = pc[d] /\ answer'[d] = answer[d]
    BY <1>1, <1>5 DEF Refuse, Return, Busy, Waits, TypeOK
  <2>2. UNCHANGED <<up, todo, link, cached, ready, open, inbox, msgId, req, reused, again,
                    calm, clean, owed>>
    BY <1>5 DEF Refuse, firefox, connection, history
  <2>3. \A d \in Calls : Busy(d)' <=> Busy(d)
    BY <2>1 DEF Busy, Waits
  <2>4. Accounted'
    BY <1>1, <2>2, <2>3 DEF Accounted, AtMostOneDue, Owes
  <2>5. ASSUME NEW d \in Calls, d # c PROVE HealsAt(d)'
    BY <2>1, <2>2, <2>5 DEF HealInvariant, HealsAt, Busy, InCommand, OnlyOwnDue, Correlates,
                            MayRetry
  <2>6. HealsAt(c)'
    BY <2>1, <2>3 DEF HealsAt
  <2> QED
    BY <2>3, <2>4, <2>5, <2>6 DEF HealInvariant
<1>6. ASSUME NEW c \in Calls, Call(c), ~ Refuse(c) PROVE HealInvariant'
  BY <1>6, BeginHeals, ReceiveHeals, LostHeals, TimeOutHeals DEF Call
<1>7. CASE UNCHANGED vars
  BY <1>1, <1>7 DEF vars, firefox, connection, calls, history, HealInvariant, HealsAt, Accounted,
                    AtMostOneDue, Owes, Busy, InCommand, OnlyOwnDue, Correlates, MayRetry
<1> QED
  BY <1>2, <1>3, <1>4, <1>5, <1>6, <1>7 DEF Next

(***************************************************************************)
(* A call during which Firefox is up and answers in time is answered, in   *)
(* whatever state it found the connection; unless a reply was owed on it   *)
(* (marionette_adapter.py, _with_reconnect).                               *)
(***************************************************************************)
THEOREM ConnectionHeals == Spec => []SelfHeals
<1>1. HealInvariant => SelfHeals
  BY DEF HealInvariant, HealsAt, SelfHeals
<1> QED
  BY <1>1, HealInit, HealNext, MarionetteInvariantHolds, PTL DEF Spec
=============================================================================
