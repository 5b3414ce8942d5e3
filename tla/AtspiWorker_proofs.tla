------------------------- MODULE AtspiWorker_proofs -------------------------
(***************************************************************************)
(* The AT-SPI worker: the pipes of the connection to it, for every number  *)
(* of calls, of which any may list windows (WorkerConnection), and, after  *)
(* them, the ids it numbers the elements with and finds them again by, for *)
(* every number of commands, any screens with finitely many elements and   *)
(* any elements that cannot be read (NodeRefs).                            *)
(***************************************************************************)
EXTENDS WorkerConnection, NodeRefs, SequenceTheorems, FiniteSetTheorems,
        WellFoundedInduction, TLAPS

-----------------------------------------------------------------------------
(***************************************************************************)
(* What is in the pipes and in the queues of replies.                      *)
(***************************************************************************)
LEMMA RangeOfNone == Range(<<>>) = {}
  BY DEF Range

LEMMA RangeType ==
  ASSUME NEW S, NEW q \in Seq(S)
  PROVE  Range(q) \subseteq S
  BY RangeOfSeq

\* What is written comes last and is there beside what was there.
LEMMA RangeOfAppend ==
  ASSUME NEW S, NEW q \in Seq(S), NEW m \in S
  PROVE  /\ Append(q, m) \in Seq(S) /\ Len(Append(q, m)) = Len(q) + 1
         /\ Range(Append(q, m)) = Range(q) \cup {m}
<1>1. <<m>> \in Seq(S) /\ Range(<<m>>) = {m}
  BY DEF Range
<1>2. Append(q, m) = q \o <<m>>
  BY AppendIsConcat
<1>3. \A s, t \in Seq(S) : Range(s \o t) = Range(s) \cup Range(t)
  BY RangeConcatenation
<1>4. Range(q \o <<m>>) = Range(q) \cup {m}
  BY <1>1, <1>3, Zenon
<1> QED
  BY <1>2, <1>4, AppendProperties

\* The first is read; what is left was there and has moved up by one.
LEMMA RangeOfTail ==
  ASSUME NEW S, NEW q \in Seq(S), q # <<>>
  PROVE  /\ Head(q) \in S /\ Head(q) \in Range(q)
         /\ Tail(q) \in Seq(S) /\ Len(Tail(q)) = Len(q) - 1
         /\ Range(Tail(q)) \subseteq Range(q)
         /\ \A i \in DOMAIN Tail(q) : i + 1 \in DOMAIN q /\ Tail(q)[i] = q[i + 1]
         /\ 1 \in DOMAIN q /\ Head(q) = q[1] /\ DOMAIN Tail(q) \subseteq Nat \ {0}
<1>1. /\ Head(q) \in S /\ Tail(q) \in Seq(S) /\ Len(Tail(q)) = Len(q) - 1
      /\ \A i \in 1 .. Len(Tail(q)) : Tail(q)[i] = q[i + 1]
  BY HeadTailProperties
<1>2. DOMAIN q = 1 .. Len(q) /\ Len(q) \in Nat \ {0}
      /\ DOMAIN Tail(q) = 1 .. Len(Tail(q))
  BY <1>1, LenProperties, EmptySeq
<1>3. Head(q) = q[1] /\ 1 \in DOMAIN q
  BY <1>2
<1>4. \A i \in DOMAIN Tail(q) : i + 1 \in DOMAIN q
  BY <1>1, <1>2
<1> QED
  BY <1>1, <1>2, <1>3, <1>4 DEF Range

LEMMA LenIsPositive ==
  ASSUME NEW S, NEW q \in Seq(S)
  PROVE  Len(q) \in Nat /\ (q # <<>> => Len(q) > 0) /\ (q = <<>> => Len(q) = 0)
  BY LenProperties, EmptySeq

-----------------------------------------------------------------------------
(***************************************************************************)
(* Type correctness.                                                       *)
(***************************************************************************)
Counts == [worker : Nat, oneshot : Nat]

\* Counting an execution by the worker changes nothing else.
LEMMA WorkerCounts ==
  ASSUME runs \in [Calls -> Counts], NEW c \in Calls,
         runs' = [runs EXCEPT ![c].worker = @ + 1]
  PROVE  /\ runs' \in [Calls -> Counts]
         /\ runs'[c].worker = runs[c].worker + 1 /\ runs'[c].oneshot = runs[c].oneshot
         /\ \A d \in Calls : d # c => runs'[d] = runs[d]
<1>1. runs[c] \in Counts
  OBVIOUS
<1>2. /\ [runs[c] EXCEPT !.worker = @ + 1] \in Counts
      /\ [runs[c] EXCEPT !.worker = @ + 1].worker = runs[c].worker + 1
      /\ [runs[c] EXCEPT !.worker = @ + 1].oneshot = runs[c].oneshot
  BY <1>1 DEF Counts
<1> QED
  BY <1>2

\* Neither does counting one by a one-shot worker.
LEMMA OneShotCounts ==
  ASSUME runs \in [Calls -> Counts], NEW c \in Calls,
         runs' = [runs EXCEPT ![c].oneshot = @ + 1]
  PROVE  /\ runs' \in [Calls -> Counts]
         /\ runs'[c].oneshot = runs[c].oneshot + 1 /\ runs'[c].worker = runs[c].worker
         /\ \A d \in Calls : d # c => runs'[d] = runs[d]
<1>1. runs[c] \in Counts
  OBVIOUS
<1>2. /\ [runs[c] EXCEPT !.oneshot = @ + 1] \in Counts
      /\ [runs[c] EXCEPT !.oneshot = @ + 1].oneshot = runs[c].oneshot + 1
      /\ [runs[c] EXCEPT !.oneshot = @ + 1].worker = runs[c].worker
  BY <1>1 DEF Counts
<1> QED
  BY <1>2

\* A connection that is stopped has executed some of the requests it had.
LEMMA StopCounts ==
  ASSUME TypeOK, Stop
  PROVE  /\ runs' \in [Calls -> Counts]
         /\ \A d \in Calls : /\ runs'[d].oneshot = runs[d].oneshot
                             /\ \/ runs'[d].worker = runs[d].worker
                                \/ /\ runs'[d].worker = runs[d].worker + 1
                                   /\ \E m \in Asked : m.call = d
<1>1. PICK n \in 0 .. Len(Pending) :
         runs' = [c \in Calls |->
                    IF c \in {Pending[i].call : i \in 1 .. n}
                      THEN [runs[c] EXCEPT !.worker = @ + 1] ELSE runs[c]]
  BY DEF Stop
<1>2. /\ Pending \in Seq(Requests) /\ Len(Pending) \in Nat
      /\ \A i \in 1 .. Len(Pending) : Pending[i] \in Asked
  <2>1. CASE busy = None
    <3>1. stdin \in Seq(Requests) /\ Pending = stdin
      BY <2>1, ConcatEmptySeq DEF Pending, TypeOK
    <3>2. DOMAIN stdin = 1 .. Len(stdin) /\ Len(stdin) \in Nat
      BY <3>1, LenProperties
    <3> QED
      BY <3>1, <3>2 DEF Asked, Range
  <2>2. CASE busy # None
    <3>1. stdin \in Seq(Requests) /\ <<busy>> \in Seq(Requests) /\ Pending = <<busy>> \o stdin
      BY <2>2 DEF Pending, TypeOK
    <3>2. DOMAIN stdin = 1 .. Len(stdin) /\ Len(stdin) \in Nat
      BY <3>1, LenProperties
    <3>3. /\ Pending \in Seq(Requests) /\ Len(Pending) = 1 + Len(stdin)
          /\ \A i \in 1 .. 1 + Len(stdin) :
               Pending[i] = IF i <= 1 THEN <<busy>>[i] ELSE stdin[i - 1]
      BY <3>1, ConcatProperties
    <3>4. ASSUME NEW i \in 1 .. 1 + Len(stdin) PROVE Pending[i] \in Asked
      <4>1. CASE i = 1
        BY <2>2, <3>2, <3>3, <4>1 DEF Asked
      <4>2. CASE i # 1
        BY <3>2, <3>3, <4>2 DEF Asked, Range
      <4> QED
        BY <4>1, <4>2
    <3> QED
      BY <3>2, <3>3, <3>4
  <2> QED
    BY <2>1, <2>2
<1>3. \A d \in Calls : /\ runs[d] \in Counts
                       /\ [runs[d] EXCEPT !.worker = @ + 1] \in Counts
                       /\ [runs[d] EXCEPT !.worker = @ + 1].worker = runs[d].worker + 1
                       /\ [runs[d] EXCEPT !.worker = @ + 1].oneshot = runs[d].oneshot
  <2> TAKE d \in Calls
  <2>1. runs[d] \in Counts
    BY DEF TypeOK, Counts
  <2> QED
    BY <2>1 DEF Counts
<1>4. \A d \in Calls : d \in {Pending[i].call : i \in 1 .. n} => \E m \in Asked : m.call = d
  BY <1>1, <1>2
<1> QED
  BY <1>1, <1>3, <1>4

\* Nothing is under way before the first call.
LEMMA WorkerInitType == Init => TypeOK
<1>1. ASSUME Init PROVE runs \in [Calls -> [worker : Nat, oneshot : Nat]]
  BY <1>1 DEF Init
<1>2. ASSUME Init PROVE answer \in [Calls -> Answers \cup Calls]
  BY <1>2 DEF Init, Answers
<1>3. ASSUME Init PROVE pc \in [Calls -> {"idle", "locking", "waiting", "oneshot", "done"}]
                        /\ req \in [Calls -> Nat]
  BY <1>3 DEF Init
<1>4. ASSUME Init PROVE stdin \in Seq(Requests) /\ stdout \in Seq(Responses) /\ buffer \in Seq(Responses)
  BY <1>4, EmptySeq DEF Init
<1>5. ASSUME Init PROVE attached \in BOOLEAN /\ late \in SUBSET Calls /\ failed \in SUBSET Calls
  BY <1>5 DEF Init
<1>6. ASSUME Init PROVE worker = "none" /\ counter = 0 /\ busy = None
  BY <1>6 DEF Init
<1> QED
  BY <1>1, <1>2, <1>3, <1>4, <1>5, <1>6 DEF TypeOK

\* No step of the worker, of its owner or of a call leaves the types.
LEMMA WorkerNextType == TypeOK /\ [Next]_vars => TypeOK'
<1> SUFFICES ASSUME TypeOK, [Next]_vars PROVE TypeOK'
  OBVIOUS
<1> USE DEF TypeOK, process, pipes, calls, history, Goto, Return, Answers
<1>1. CASE Start
  BY <1>1 DEF Start
<1>2. CASE Handshake
  BY <1>2 DEF Handshake
<1>3. CASE NoHandshake
  BY <1>3 DEF NoHandshake
<1>4. CASE Stop
  <2>1. runs' \in [Calls -> [worker : Nat, oneshot : Nat]]
    BY <1>4, StopCounts DEF Counts
  <2> QED
    BY <1>4, <2>1, EmptySeq DEF Stop
<1>5. CASE Take
  BY <1>5, RangeOfTail DEF Take
<1>6. CASE Respond
  <2>1. busy \in Requests
    BY <1>6 DEF Respond
  <2>2. \A ok \in BOOLEAN :
           Append(stdout, [id |-> busy.id, call |-> busy.call, ok |-> ok]) \in Seq(Responses)
    <3> TAKE ok \in BOOLEAN
    <3>1. [id |-> busy.id, call |-> busy.call, ok |-> ok] \in Responses
      BY <2>1 DEF Requests, Responses
    <3> QED
      BY <3>1, RangeOfAppend
  <2>3. runs' \in [Calls -> [worker : Nat, oneshot : Nat]]
    BY <1>6, <2>1, WorkerCounts DEF Respond, Execute, Requests, Counts
  <2>4. stdout' \in Seq(Responses) /\ failed' \in SUBSET Calls
    BY <1>6, <2>1, <2>2 DEF Respond, Requests
  <2> QED
    BY <1>6, <2>3, <2>4 DEF Respond
<1>7. CASE Die
  <2>1. runs' \in [Calls -> [worker : Nat, oneshot : Nat]]
    BY <1>7, WorkerCounts DEF Die, Execute, Requests, Counts
  <2> QED
    BY <1>7, <2>1, EmptySeq DEF Die
<1>8. ASSUME NEW c \in Calls, Call(c) PROVE TypeOK'
  <2>1. CASE Enter(c)
    BY <2>1 DEF Enter
  <2>2. CASE Send(c)
    <3>1. [id |-> counter + 1, call |-> c] \in Requests
      BY DEF Requests
    <3>2. Append(stdin, [id |-> counter + 1, call |-> c]) \in Seq(Requests)
      BY <3>1, RangeOfAppend
    <3>3. CASE IsAlive
      <4>1. /\ counter' = counter + 1
            /\ req' = [req EXCEPT ![c] = counter + 1]
            /\ stdin' = Append(stdin, [id |-> counter + 1, call |-> c])
            /\ pc' = [pc EXCEPT ![c] = "waiting"]
        BY <2>2, <3>3 DEF Send
      <4>2. counter' \in Nat /\ req' \in [Calls -> Nat]
        BY <4>1
      <4> QED
        BY <2>2, <3>2, <4>1, <4>2 DEF Send
    <3>4. CASE ~ IsAlive
      BY <2>2, <3>4 DEF Send
    <3> QED
      BY <2>2, <3>3, <3>4 DEF Send
  <2>3. CASE Receive(c)
    <3>1. Lines \in Seq(Responses) /\ Lines # <<>>
      BY <2>3 DEF Receive, Lines
    <3>2. Head(Lines) \in Responses /\ Tail(Lines) \in Seq(Responses)
      BY <3>1, RangeOfTail
    <3>3. Head(Lines).call \in Calls
      BY <3>2 DEF Responses
    <3> QED
      BY <2>3, <3>2, <3>3, EmptySeq DEF Receive, ReadLine
  <2>4. CASE ReceiveNothing(c)
    BY <2>4 DEF ReceiveNothing
  <2>5. CASE TimeOut(c)
    BY <2>5 DEF TimeOut
  <2>6. CASE OneShot(c)
    <3>1. runs' \in [Calls -> [worker : Nat, oneshot : Nat]]
      BY <2>6, OneShotCounts DEF OneShot, Counts
    <3> QED
      BY <2>6, <3>1 DEF OneShot, Failure
  <2> QED
    BY <1>8, <2>1, <2>2, <2>3, <2>4, <2>5, <2>6 DEF Call
<1>9. CASE UNCHANGED vars
  BY <1>9 DEF vars
<1> QED
  BY <1>1, <1>2, <1>3, <1>4, <1>5, <1>6, <1>7, <1>8, <1>9 DEF Next, Worker

\* Every variable keeps its type: the pipes carry requests one way and
\* responses the other, however slow the worker is and whenever it dies.
THEOREM WorkerTypeCorrect == Spec => []TypeOK
<1> QED
  BY WorkerInitType, WorkerNextType, PTL DEF Spec

-----------------------------------------------------------------------------
(***************************************************************************)
(* The invariant.                                                          *)
(***************************************************************************)
\* What is in the pipes has the type of a message.
LEMMA MessagesType ==
  ASSUME TypeOK
  PROVE  /\ Asked \subseteq Requests /\ Said \subseteq Responses
         /\ \A m \in Asked : m.id \in Nat \ {0} /\ m.call \in Calls
         /\ \A m \in Said : m.id \in Nat \ {0} /\ m.call \in Calls /\ m.ok \in BOOLEAN
         /\ \A c \in Calls : runs[c].worker \in Nat /\ runs[c].oneshot \in Nat
         /\ Len(stdin) \in Nat /\ Len(stdout) \in Nat /\ Len(buffer) \in Nat
<1>1. Range(stdin) \subseteq Requests /\ Range(stdout) \subseteq Responses /\ Range(buffer) \subseteq Responses
  BY RangeType DEF TypeOK
<1>2. Asked \subseteq Requests /\ Said \subseteq Responses
  BY <1>1 DEF Asked, Said, TypeOK
<1>3. \A c \in Calls : runs[c] \in [worker : Nat, oneshot : Nat]
  BY DEF TypeOK
<1>4. Len(stdin) \in Nat /\ Len(stdout) \in Nat /\ Len(buffer) \in Nat
  BY LenIsPositive DEF TypeOK
<1> QED
  BY <1>2, <1>3, <1>4 DEF Requests, Responses

\* The pipes are empty and no call has begun.
LEMMA WorkerInitInvariant == Init => WorkerInvariant
<1> SUFFICES ASSUME Init PROVE WorkerInvariant
  OBVIOUS
<1>1. TypeOK
  BY WorkerInitType
<1>2. Asked = {} /\ Said = {} /\ DOMAIN stdin = {}
  BY RangeOfNone DEF Asked, Said, Init
<1>3. Len(stdin) = 0 /\ Len(stdout) = 0 /\ Len(buffer) = 0
  BY EmptySeq DEF Init
<1>4. \A c \in Calls : /\ pc[c] = "idle" /\ req[c] = 0 /\ answer[c] = "none"
                       /\ runs[c].worker = 0 /\ runs[c].oneshot = 0
  BY DEF Init
<1>5. AskedOnce /\ RequestsAreDue /\ ResponsesAreTrue
  BY <1>2 DEF AskedOnce, RequestsAreDue, ResponsesAreTrue, Init
<1>6. NumbersAreUnique /\ \A c \in Calls : CallAt(c)
  BY <1>4 DEF NumbersAreUnique, CallAt, Init
<1>7. InTurn
  BY <1>2, <1>3, <1>4 DEF InTurn, Init
<1>8. AnswerIsOwn /\ TwiceOnlyAfterLoss
  BY <1>4, NamesAssumption DEF AnswerIsOwn, TwiceOnlyAfterLoss, Answers
<1> QED
  BY <1>1, <1>5, <1>6, <1>7, <1>8 DEF WorkerInvariant

\* Steps that touch neither the pipes nor the calls.
LEMMA ProcessKeeps ==
  ASSUME WorkerInvariant, TypeOK', UNCHANGED <<pipes, calls, history>>,
         worker' = worker \/ worker' = "dead" \/ worker # "dead"
  PROVE  WorkerInvariant'
<1> USE DEF WorkerInvariant, pipes, calls, history
<1>1. UNCHANGED <<Asked, Said>>
  BY DEF Asked, Said, Range
<1>2. AskedOnce' /\ RequestsAreDue' /\ ResponsesAreTrue'
  BY <1>1 DEF AskedOnce, RequestsAreDue, ResponsesAreTrue
<1>3. NumbersAreUnique' /\ \A c \in Calls : CallAt(c)'
  BY DEF NumbersAreUnique, CallAt
<1>4. InTurn' /\ AnswerIsOwn' /\ TwiceOnlyAfterLoss'
  BY <1>1 DEF InTurn, Undisturbed, AnswerIsOwn, TwiceOnlyAfterLoss
<1> QED
  BY <1>2, <1>3, <1>4

\* The end of the worker: the requests it had are gone, some were executed.
LEMMA EndKeeps ==
  ASSUME WorkerInvariant, TypeOK', worker' = "dead", stdin' = <<>>, busy' = None,
         UNCHANGED <<counter, stdout, buffer, calls, late, failed>>,
         \A d \in Calls : /\ runs'[d].oneshot = runs[d].oneshot
                          /\ \/ runs'[d].worker = runs[d].worker
                             \/ /\ runs'[d].worker = runs[d].worker + 1
                                /\ \E m \in Asked : m.call = d
  PROVE  WorkerInvariant'
<1> USE DEF WorkerInvariant, calls
<1>1. Asked' = {} /\ Said' = Said /\ DOMAIN stdin' = {}
  BY RangeOfNone DEF Asked, Said, Range
<1>2. \A d \in Calls : \/ runs'[d].worker = runs[d].worker
                       \/ runs[d].worker = 0 /\ runs'[d].worker = 1 /\ req[d] # 0
  BY MessagesType DEF RequestsAreDue
<1>3. ASSUME NEW m \in Said PROVE m.ok => runs'[m.call].worker = 1
  BY <1>2, <1>3, MessagesType DEF ResponsesAreTrue
<1>4. AskedOnce' /\ RequestsAreDue' /\ ResponsesAreTrue'
  BY <1>1, <1>3 DEF AskedOnce, RequestsAreDue, ResponsesAreTrue
<1>5. NumbersAreUnique' /\ \A c \in Calls : CallAt(c)'
  BY <1>2 DEF NumbersAreUnique, CallAt
<1>6. InTurn' /\ TwiceOnlyAfterLoss'
  BY <1>2 DEF InTurn, Undisturbed, TwiceOnlyAfterLoss, CallAt
<1>7. ASSUME NEW c \in Calls, answer'[c] \in Calls
      PROVE  answer'[c] = c /\ runs'[c] = [worker |-> 1, oneshot |-> 0]
  <2>1. answer[c] = c /\ runs[c] = [worker |-> 1, oneshot |-> 0]
    BY <1>7 DEF AnswerIsOwn
  <2>2. runs'[c].worker = 1 /\ runs'[c].oneshot = 0
    BY <1>2, <2>1
  <2>3. runs'[c] \in [worker : Nat, oneshot : Nat]
    BY DEF TypeOK
  <2> QED
    BY <1>7, <2>1, <2>2, <2>3
<1> QED
  BY <1>4, <1>5, <1>6, <1>7 DEF AnswerIsOwn

\* The request the worker takes from stdin is still due, and only it is busy.
LEMMA TakeKeeps ==
  ASSUME WorkerInvariant, TypeOK', Take
  PROVE  WorkerInvariant'
<1> USE DEF WorkerInvariant, process, calls, history
<1>1. /\ busy = None /\ stdin # <<>> /\ busy' = Head(stdin) /\ stdin' = Tail(stdin)
      /\ UNCHANGED <<process, counter, stdout, buffer, calls, history>>
  BY DEF Take
<1>2. /\ stdin \in Seq(Requests) /\ busy' \in Requests /\ busy' # None /\ busy' \in Range(stdin)
      /\ Len(stdin') = Len(stdin) - 1 /\ Range(stdin') \subseteq Range(stdin)
  BY <1>1, RangeOfTail, NamesAssumption DEF TypeOK
<1>3. Asked' \subseteq Asked /\ Said' = Said
  BY <1>1, <1>2 DEF Asked, Said, Range
<1>4. AskedOnce'
  <2>1. /\ 1 \in DOMAIN stdin /\ busy' = stdin[1]
        /\ \A i \in DOMAIN stdin' : /\ i \in Nat \ {0} /\ i + 1 \in DOMAIN stdin
                                    /\ stdin'[i] = stdin[i + 1]
    BY <1>1, <1>2, RangeOfTail
  <2>2. ASSUME NEW i \in DOMAIN stdin', NEW j \in DOMAIN stdin', stdin'[i].call = stdin'[j].call
        PROVE  i = j
    <3>1. i + 1 = j + 1
      BY <2>1, <2>2 DEF AskedOnce
    <3> QED
      BY <2>1, <3>1
  <2>3. ASSUME NEW i \in DOMAIN stdin', stdin'[i].call = busy'.call
        PROVE  FALSE
    <3>1. i + 1 = 1
      BY <2>1, <2>3 DEF AskedOnce
    <3> QED
      BY <2>1, <3>1
  <2> QED
    BY <2>2, <2>3 DEF AskedOnce
<1>5. RequestsAreDue' /\ ResponsesAreTrue'
  BY <1>1, <1>3 DEF RequestsAreDue, ResponsesAreTrue
<1>6. NumbersAreUnique' /\ \A c \in Calls : CallAt(c)'
  BY <1>1 DEF NumbersAreUnique, CallAt
<1>7. InTurn'
  BY <1>1, <1>2, <1>3, MessagesType DEF InTurn, Undisturbed
<1>8. AnswerIsOwn' /\ TwiceOnlyAfterLoss'
  BY <1>1 DEF AnswerIsOwn, TwiceOnlyAfterLoss
<1> QED
  BY <1>4, <1>5, <1>6, <1>7, <1>8

\* The response bears the number of the request it answers, executed once.
LEMMA RespondKeeps ==
  ASSUME WorkerInvariant, TypeOK', Respond
  PROVE  WorkerInvariant'
<1> USE DEF WorkerInvariant, process, calls
<1>1. /\ busy # None /\ busy' = None
      /\ UNCHANGED <<process, counter, stdin, buffer, calls, late>>
  BY DEF Respond
<1>2. PICK ok \in BOOLEAN :
         /\ stdout' = Append(stdout, [id |-> busy.id, call |-> busy.call, ok |-> ok])
         /\ ok => Execute(busy.call) /\ failed' = failed
         /\ ~ ok => (Execute(busy.call) \/ UNCHANGED runs) /\ failed' = failed \cup {busy.call}
  BY DEF Respond
<1> DEFINE r == [id |-> busy.id, call |-> busy.call, ok |-> ok]
<1>3. /\ busy \in Asked /\ busy \in Requests /\ busy.call \in Calls /\ busy.id # 0
      /\ r \in Responses /\ r.id = busy.id /\ r.call = busy.call /\ r.ok = ok
  BY <1>1, MessagesType DEF Asked, TypeOK, Requests, Responses
<1>4. /\ Len(stdout') = Len(stdout) + 1 /\ Range(stdout') = Range(stdout) \cup {r}
  BY <1>2, <1>3, RangeOfAppend DEF TypeOK
<1>5. /\ Asked' \subseteq Asked /\ Said' = Said \cup {r}
      /\ \A m \in Asked' : m.call # busy.call
  <2>1. Asked' = Range(stdin)
    BY <1>1 DEF Asked, Range
  <2> QED
    BY <1>1, <1>4, <2>1 DEF Asked, Said, Range, AskedOnce
<1>6. /\ runs[busy.call].worker = 0 /\ req[busy.call] = busy.id
      /\ \A d \in Calls : runs'[d].oneshot = runs[d].oneshot
      /\ \A d \in Calls : d # busy.call => runs'[d] = runs[d]
      /\ runs'[busy.call].worker = 1 \/ (runs'[busy.call].worker = 0 /\ ~ ok)
  <2>1. runs[busy.call].worker = 0 /\ req[busy.call] = busy.id
    BY <1>3 DEF RequestsAreDue
  <2>2. runs \in [Calls -> Counts]
    BY DEF TypeOK, Counts
  <2>3. CASE Execute(busy.call)
    <3>1. runs' = [runs EXCEPT ![busy.call].worker = @ + 1]
      BY <2>3 DEF Execute
    <3>2. /\ runs'[busy.call].worker = runs[busy.call].worker + 1
          /\ runs'[busy.call].oneshot = runs[busy.call].oneshot
          /\ \A d \in Calls : d # busy.call => runs'[d] = runs[d]
      BY <1>3, <2>2, <3>1, WorkerCounts
    <3>3. runs'[busy.call].worker = 1
      BY <2>1, <3>2
    <3> QED
      BY <2>1, <3>2, <3>3
  <2>4. CASE UNCHANGED runs /\ ~ ok
    BY <2>1, <2>4
  <2> QED
    BY <1>2, <2>3, <2>4
<1>7. AskedOnce'
  BY <1>1 DEF AskedOnce
<1>8. RequestsAreDue'
  BY <1>1, <1>5, <1>6, MessagesType DEF RequestsAreDue
<1>9. ResponsesAreTrue'
  <2>1. ASSUME NEW m \in Said
        PROVE  req[m.call] = m.id /\ (IF m.ok THEN runs'[m.call].worker = 1 ELSE m.call \in failed')
    <3>1. m.ok => m.call # busy.call
      BY <1>6, <2>1 DEF ResponsesAreTrue
    <3>2. failed \subseteq failed'
      BY <1>2
    <3> QED
      BY <1>6, <2>1, <3>1, <3>2, MessagesType DEF ResponsesAreTrue
  <2>2. req[r.call] = r.id /\ (IF r.ok THEN runs'[r.call].worker = 1 ELSE r.call \in failed')
    BY <1>2, <1>3, <1>6
  <2> QED
    BY <1>1, <1>5, <2>1, <2>2 DEF ResponsesAreTrue
<1>10. NumbersAreUnique' /\ \A c \in Calls : CallAt(c)'
  BY <1>1, <1>3, <1>6 DEF NumbersAreUnique, CallAt
<1>11. InTurn'
  <2> SUFFICES ASSUME Undisturbed'
               PROVE  /\ Len(stdin') + Len(stdout') + Len(buffer')
                           + (IF busy' = None THEN 0 ELSE 1) <= 1
                      /\ \A m \in Asked' \cup Said' : pc'[m.call] = "waiting"
                      /\ \A c \in Calls \ failed' : pc'[c] = "oneshot" => runs'[c].worker = 0
    BY DEF InTurn
  <2>1. Undisturbed /\ failed \subseteq failed'
    BY <1>1, <1>2 DEF Undisturbed
  <2>2. pc[busy.call] = "waiting"
    BY <1>3, <2>1 DEF InTurn
  <2>3. \A m \in Asked' \cup Said' : pc'[m.call] = "waiting"
    BY <1>1, <1>3, <1>5, <2>1, <2>2 DEF InTurn
  <2>4. Len(stdin') + Len(stdout') + Len(buffer') + (IF busy' = None THEN 0 ELSE 1) <= 1
    BY <1>1, <1>4, <2>1, MessagesType DEF InTurn
  <2>5. \A c \in Calls \ failed' : pc'[c] = "oneshot" => runs'[c].worker = 0
    BY <1>1, <1>6, <2>1, <2>2 DEF InTurn
  <2> QED
    BY <2>3, <2>4, <2>5
<1>12. AnswerIsOwn'
  <2> SUFFICES ASSUME NEW c \in Calls, answer'[c] \in Calls
               PROVE  answer'[c] = c /\ runs'[c] = [worker |-> 1, oneshot |-> 0]
    BY DEF AnswerIsOwn
  <2>1. answer[c] = c /\ runs[c] = [worker |-> 1, oneshot |-> 0]
    BY <1>1 DEF AnswerIsOwn
  <2>2. c # busy.call
    BY <1>6, <2>1
  <2> QED
    BY <1>1, <1>6, <2>1, <2>2
<1>13. TwiceOnlyAfterLoss'
  <2> SUFFICES ASSUME NEW c \in Calls
               PROVE  /\ runs'[c].worker <= 1 /\ runs'[c].oneshot <= 1
                      /\ runs'[c].worker + runs'[c].oneshot = 2 =>
                           late' # {} \/ c \in failed' \/ worker' = "dead"
    BY DEF TwiceOnlyAfterLoss
  <2>1. failed \subseteq failed'
    BY <1>2
  <2>2. CASE c # busy.call
    BY <1>1, <1>6, <2>1, <2>2 DEF TwiceOnlyAfterLoss
  <2>3. CASE c = busy.call
    <3>1. runs[c].oneshot <= 1 /\ runs[c].oneshot \in Nat
      BY MessagesType DEF CallAt
    <3>2. late = {} /\ worker # "dead" => runs[c].oneshot = 0
      BY <1>3, <2>3 DEF InTurn, Undisturbed, CallAt
    <3> QED
      BY <1>1, <1>6, <2>3, <3>1, <3>2
  <2> QED
    BY <2>2, <2>3
<1> QED
  BY <1>7, <1>8, <1>9, <1>10, <1>11, <1>12, <1>13

\* A call that enters has no request number yet.
LEMMA EnterKeeps ==
  ASSUME WorkerInvariant, TypeOK', NEW c \in Calls, Enter(c)
  PROVE  WorkerInvariant'
<1> USE DEF WorkerInvariant, process, pipes, history
<1>1. /\ pc[c] = "idle" /\ UNCHANGED <<process, pipes, req, answer, history>>
      /\ pc' = [pc EXCEPT ![c] = IF attached /\ IsAlive THEN "locking" ELSE "oneshot"]
  BY DEF Enter, Goto
<1>2. Asked' = Asked /\ Said' = Said
  BY <1>1 DEF Asked, Said, Range
<1>3. /\ pc'[c] \in {"locking", "oneshot"} /\ req[c] = 0 /\ runs[c].worker = 0
      /\ \A d \in Calls : d # c => pc'[d] = pc[d]
  BY <1>1 DEF CallAt, TypeOK
<1>4. \A m \in Asked \cup Said : m.call # c
  BY <1>3, MessagesType DEF RequestsAreDue, ResponsesAreTrue
<1>5. AskedOnce' /\ RequestsAreDue' /\ ResponsesAreTrue'
  BY <1>1, <1>2 DEF AskedOnce, RequestsAreDue, ResponsesAreTrue
<1>6. NumbersAreUnique' /\ \A d \in Calls : CallAt(d)'
  BY <1>1, <1>3 DEF NumbersAreUnique, CallAt
<1>7. InTurn'
  BY <1>1, <1>2, <1>3, <1>4, MessagesType DEF InTurn, Undisturbed
<1>8. AnswerIsOwn' /\ TwiceOnlyAfterLoss'
  BY <1>1 DEF AnswerIsOwn, TwiceOnlyAfterLoss
<1> QED
  BY <1>5, <1>6, <1>7, <1>8

\* The number of a new request is larger than all before it.
LEMMA SendKeeps ==
  ASSUME WorkerInvariant, TypeOK', NEW c \in Calls, Send(c)
  PROVE  WorkerInvariant'
<1> USE DEF WorkerInvariant, process, history
<1>1. /\ pc[c] = "locking" /\ \A d \in Calls : pc[d] # "waiting"
      /\ UNCHANGED <<process, busy, stdout, buffer, answer, history>>
  BY DEF Send, LockIsFree
<1>2. req[c] = 0 /\ runs[c].worker = 0 /\ runs[c].oneshot = 0 /\ answer[c] = "none"
  BY <1>1 DEF CallAt
<1>3. \A m \in Asked \cup Said : m.call # c
  BY <1>2, MessagesType DEF RequestsAreDue, ResponsesAreTrue
<1>4. CASE ~ IsAlive
  <2>1. pc' = [pc EXCEPT ![c] = "oneshot"] /\ UNCHANGED <<counter, req, stdin>>
    BY <1>4 DEF Send, Goto
  <2>2. Asked' = Asked /\ Said' = Said
    BY <1>1, <2>1 DEF Asked, Said, Range
  <2>3. pc'[c] = "oneshot" /\ \A d \in Calls : d # c => pc'[d] = pc[d]
    BY <2>1 DEF TypeOK
  <2>4. AskedOnce' /\ RequestsAreDue' /\ ResponsesAreTrue'
    BY <1>1, <2>1, <2>2 DEF AskedOnce, RequestsAreDue, ResponsesAreTrue
  <2>5. NumbersAreUnique' /\ \A d \in Calls : CallAt(d)'
    BY <1>1, <1>2, <2>1, <2>3 DEF NumbersAreUnique, CallAt
  <2>6. InTurn'
    BY <1>1, <1>2, <1>3, <2>1, <2>2, <2>3, MessagesType DEF InTurn, Undisturbed
  <2>7. AnswerIsOwn' /\ TwiceOnlyAfterLoss'
    BY <1>1 DEF AnswerIsOwn, TwiceOnlyAfterLoss
  <2> QED
    BY <2>4, <2>5, <2>6, <2>7
<1>5. CASE IsAlive
  <2> DEFINE r == [id |-> counter + 1, call |-> c]
  <2>1. /\ counter' = counter + 1 /\ req' = [req EXCEPT ![c] = counter + 1]
        /\ stdin' = Append(stdin, r) /\ pc' = [pc EXCEPT ![c] = "waiting"]
    BY <1>5 DEF Send, Goto
  <2>2. r \in Requests /\ r.id = counter + 1 /\ r.call = c
    BY DEF Requests, TypeOK
  <2>3. /\ pc'[c] = "waiting" /\ \A d \in Calls : d # c => pc'[d] = pc[d]
        /\ req'[c] = counter + 1 /\ \A d \in Calls : d # c => req'[d] = req[d]
        /\ counter \in Nat /\ \A d \in Calls : req[d] \in Nat /\ req[d] <= counter
    BY <2>1 DEF TypeOK, NumbersAreUnique
  <2>4. Len(stdin') = Len(stdin) + 1 /\ Range(stdin') = Range(stdin) \cup {r}
    BY <2>1, <2>2, RangeOfAppend DEF TypeOK
  <2>5. Asked' = Asked \cup {r} /\ Said' = Said
    BY <1>1, <2>4 DEF Asked, Said, Range
  <2>6. AskedOnce'
    <3>1. /\ \A i \in 1 .. Len(stdin) : stdin'[i] = stdin[i] /\ stdin[i] \in Asked
          /\ stdin'[Len(stdin) + 1] = r /\ Len(stdin) \in Nat
          /\ DOMAIN stdin = 1 .. Len(stdin) /\ DOMAIN stdin' = 1 .. Len(stdin) + 1
      BY <2>1, <2>2, <2>4, AppendProperties, LenProperties DEF TypeOK, Asked, Range
    <3>2. ASSUME NEW i \in DOMAIN stdin', NEW j \in DOMAIN stdin', stdin'[i].call = stdin'[j].call
          PROVE  i = j
      <4>1. (i \in 1 .. Len(stdin) \/ i = Len(stdin) + 1) /\ (j \in 1 .. Len(stdin) \/ j = Len(stdin) + 1)
        BY <3>1
      <4>2. CASE i \in 1 .. Len(stdin) /\ j \in 1 .. Len(stdin)
        BY <3>1, <3>2, <4>2 DEF AskedOnce
      <4>3. i \in 1 .. Len(stdin) => stdin'[i].call # c
        BY <1>3, <3>1
      <4>4. j \in 1 .. Len(stdin) => stdin'[j].call # c
        BY <1>3, <3>1
      <4> QED
        BY <2>2, <3>1, <3>2, <4>1, <4>2, <4>3, <4>4
    <3>3. busy' # None => \A i \in DOMAIN stdin' : stdin'[i].call # busy'.call
      <4> SUFFICES ASSUME busy # None, NEW i \in DOMAIN stdin' PROVE stdin'[i].call # busy.call
        BY <1>1
      <4>1. busy.call # c
        BY <1>3 DEF Asked
      <4>2. i \in 1 .. Len(stdin) \/ i = Len(stdin) + 1
        BY <3>1
      <4> QED
        BY <2>2, <3>1, <4>1, <4>2 DEF AskedOnce
    <3> QED
      BY <3>2, <3>3 DEF AskedOnce
  <2>7. RequestsAreDue' /\ ResponsesAreTrue'
    BY <1>1, <1>2, <1>3, <2>2, <2>3, <2>5, MessagesType DEF RequestsAreDue, ResponsesAreTrue
  <2>8. NumbersAreUnique'
    <3> SUFFICES ASSUME NEW d \in Calls, NEW e \in Calls
                 PROVE  /\ req'[d] <= counter'
                        /\ req'[d] = req'[e] /\ req'[d] # 0 => d = e
                        /\ pc'[d] = "waiting" /\ pc'[e] = "waiting" => d = e
      BY DEF NumbersAreUnique
    <3>1. pc'[d] = "waiting" => d = c
      BY <1>1, <2>3
    <3>2. pc'[e] = "waiting" => e = c
      BY <1>1, <2>3
    <3>3. req'[d] <= counter'
      BY <2>1, <2>3
    <3>4. req'[d] = req'[e] /\ req'[d] # 0 => d = e
      BY <2>3 DEF NumbersAreUnique
    <3> QED
      BY <3>1, <3>2, <3>3, <3>4
  <2>9. \A d \in Calls : CallAt(d)'
    BY <1>1, <1>2, <2>3 DEF CallAt
  <2>10. InTurn'
    <3> SUFFICES ASSUME Undisturbed'
                 PROVE  /\ Len(stdin') + Len(stdout') + Len(buffer')
                             + (IF busy' = None THEN 0 ELSE 1) <= 1
                        /\ \A m \in Asked' \cup Said' : pc'[m.call] = "waiting"
                        /\ \A d \in Calls \ failed' : pc'[d] = "oneshot" => runs'[d].worker = 0
      BY DEF InTurn
    <3>1. Undisturbed
      BY <1>1 DEF Undisturbed
    <3>2. Asked = {} /\ Said = {}
      BY <1>1, <3>1, MessagesType DEF InTurn
    <3>3. busy = None /\ stdin = <<>> /\ stdout = <<>> /\ buffer = <<>>
      <4>1. \A q \in {stdin, stdout, buffer} : Range(q) = {} => q = <<>>
        BY RangeOfTail DEF TypeOK
      <4> QED
        BY <3>2, <4>1 DEF Asked, Said
    <3>4. Len(stdin) = 0 /\ Len(stdout) = 0 /\ Len(buffer) = 0
      BY <3>3, EmptySeq
    <3> QED
      BY <1>1, <2>2, <2>3, <2>4, <2>5, <3>1, <3>2, <3>3, <3>4 DEF InTurn
  <2>11. AnswerIsOwn' /\ TwiceOnlyAfterLoss'
    BY <1>1 DEF AnswerIsOwn, TwiceOnlyAfterLoss
  <2> QED
    BY <2>6, <2>7, <2>8, <2>9, <2>10, <2>11
<1> QED
  BY <1>4, <1>5

\* A response is only accepted by the call whose number it bears.
LEMMA ReceiveKeeps ==
  ASSUME WorkerInvariant, TypeOK', NEW c \in Calls, Receive(c)
  PROVE  WorkerInvariant'
<1> USE DEF WorkerInvariant, process, history
<1>1. /\ pc[c] = "waiting" /\ Lines # <<>> /\ ReadLine
      /\ UNCHANGED <<process, counter, stdin, busy, req, history>>
  BY DEF Receive
<1> DEFINE m == Head(Lines)
<1>2. /\ Lines \in Seq(Responses) /\ m \in Responses /\ m \in Range(Lines) /\ m \in Said
      /\ Range(Tail(Lines)) \subseteq Range(Lines) /\ Len(Tail(Lines)) = Len(Lines) - 1
  BY <1>1, RangeOfTail DEF Lines, TypeOK, Said
<1>3. /\ Asked' = Asked /\ Said' \subseteq Said
      /\ Len(stdout') + Len(buffer') <= Len(stdout) + Len(buffer) - 1
  <2>1. Len(stdout) \in Nat /\ Len(buffer) \in Nat /\ Len(<<>>) = 0
    BY MessagesType, EmptySeq
  <2>2. CASE buffer # <<>>
    BY <1>1, <1>2, <2>1, <2>2 DEF ReadLine, Lines, Asked, Said, Range
  <2>3. CASE buffer = <<>>
    BY <1>1, <1>2, <2>1, <2>3, RangeOfNone DEF ReadLine, Lines, Asked, Said
  <2> QED
    BY <2>2, <2>3
<1>4. /\ req[c] # 0 /\ runs[c].oneshot = 0 /\ answer[c] = "none"
      /\ req[m.call] = m.id /\ m.call \in Calls /\ m.id # 0
  BY <1>1, <1>2, MessagesType DEF CallAt, ResponsesAreTrue
<1>5. \/ /\ m.call = c /\ m.ok
         /\ pc' = [pc EXCEPT ![c] = "done"] /\ answer' = [answer EXCEPT ![c] = c]
      \/ /\ ~ (m.call = c /\ m.ok)
         /\ pc' = [pc EXCEPT ![c] = "oneshot"] /\ UNCHANGED answer
  <2>1. m.id = req[c] <=> m.call = c
    BY <1>4 DEF NumbersAreUnique
  <2>2. CASE Accepts(c, m)
    BY <2>1, <2>2 DEF Accepts, Receive, Return, Goto
  <2>3. CASE ~ Accepts(c, m)
    BY <2>1, <2>3 DEF Accepts, Receive, Goto
  <2> QED
    BY <2>2, <2>3
<1>6. /\ pc'[c] \in {"done", "oneshot"} /\ \A d \in Calls : d # c => pc'[d] = pc[d]
      /\ \A d \in Calls : d # c => answer'[d] = answer[d]
      /\ pc'[c] = "oneshot" => ~ (m.call = c /\ m.ok) /\ answer'[c] = "none"
      /\ pc'[c] = "done" => m.call = c /\ m.ok /\ answer'[c] = c
  BY <1>4, <1>5 DEF TypeOK
<1>7. AskedOnce' /\ RequestsAreDue' /\ ResponsesAreTrue'
  BY <1>1, <1>3 DEF AskedOnce, RequestsAreDue, ResponsesAreTrue
<1>8. NumbersAreUnique' /\ \A d \in Calls : CallAt(d)'
  BY <1>1, <1>4, <1>6 DEF NumbersAreUnique, CallAt
<1>9. InTurn'
  <2> SUFFICES ASSUME Undisturbed'
               PROVE  /\ Len(stdin') + Len(stdout') + Len(buffer')
                           + (IF busy' = None THEN 0 ELSE 1) <= 1
                      /\ \A n \in Asked' \cup Said' : pc'[n.call] = "waiting"
                      /\ \A d \in Calls \ failed' : pc'[d] = "oneshot" => runs'[d].worker = 0
    BY DEF InTurn
  <2>1. Undisturbed
    BY <1>1 DEF Undisturbed
  <2>2. /\ Len(stdin) \in Nat /\ Len(stdout') \in Nat /\ Len(buffer') \in Nat
        /\ Len(stdout) \in Nat /\ Len(buffer) \in Nat
    BY MessagesType, LenIsPositive DEF TypeOK
  <2>3. Len(stdin) = 0 /\ Len(stdout') = 0 /\ Len(buffer') = 0 /\ busy = None
    BY <1>3, <2>1, <2>2 DEF InTurn
  <2>4. stdin = <<>> /\ stdout' = <<>> /\ buffer' = <<>>
    BY <2>3, LenIsPositive DEF TypeOK
  <2>5. Asked' = {} /\ Said' = {}
    BY <1>1, <2>3, <2>4, RangeOfNone DEF Asked, Said, Range
  <2>6. m.call = c
    BY <1>1, <1>2, <1>4, <2>1 DEF InTurn, NumbersAreUnique
  <2>7. pc'[c] = "oneshot" => c \in failed
    BY <1>2, <1>6, <2>6 DEF ResponsesAreTrue
  <2> QED
    BY <1>1, <1>6, <2>1, <2>2, <2>3, <2>4, <2>5, <2>7 DEF InTurn
<1>10. AnswerIsOwn'
  <2> SUFFICES ASSUME NEW d \in Calls, answer'[d] \in Calls
               PROVE  answer'[d] = d /\ runs'[d] = [worker |-> 1, oneshot |-> 0]
    BY DEF AnswerIsOwn
  <2>1. CASE d # c
    BY <1>1, <1>6, <2>1 DEF AnswerIsOwn
  <2>2. CASE d = c
    <3>1. m.call = c /\ m.ok /\ answer'[c] = c
      BY <1>6, <2>2, NamesAssumption DEF Answers
    <3>2. runs[c].worker = 1 /\ runs[c].oneshot = 0 /\ runs[c] \in [worker : Nat, oneshot : Nat]
      BY <1>2, <1>4, <3>1 DEF ResponsesAreTrue, TypeOK
    <3> QED
      BY <1>1, <2>2, <3>1, <3>2
  <2> QED
    BY <2>1, <2>2
<1>11. TwiceOnlyAfterLoss'
  BY <1>1 DEF TwiceOnlyAfterLoss
<1> QED
  BY <1>7, <1>8, <1>9, <1>10, <1>11

\* A call that stops waiting.  What it waited for may still come.
LEMMA GiveUpKeeps ==
  ASSUME WorkerInvariant, TypeOK', NEW c \in Calls, ReceiveNothing(c) \/ TimeOut(c)
  PROVE  WorkerInvariant'
<1> USE DEF WorkerInvariant, process, pipes
<1>1. /\ pc[c] = "waiting" /\ pc' = [pc EXCEPT ![c] = "oneshot"]
      /\ UNCHANGED <<process, pipes, req, answer, runs, failed>>
  BY DEF ReceiveNothing, TimeOut, Goto, history
<1>2. ~ Undisturbed' /\ late \subseteq late'
  <2>1. CASE TimeOut(c)
    BY <2>1 DEF TimeOut, Undisturbed
  <2>2. CASE ReceiveNothing(c)
    <3>1. stdout = <<>>
      BY <2>2 DEF ReceiveNothing, Lines
    <3> QED
      BY <2>2, <3>1 DEF ReceiveNothing, Readable, Undisturbed, history
  <2> QED
    BY <2>1, <2>2
<1>3. pc'[c] = "oneshot" /\ \A d \in Calls : d # c => pc'[d] = pc[d]
  BY <1>1 DEF TypeOK
<1>4. Asked' = Asked /\ Said' = Said
  BY <1>1 DEF Asked, Said, Range
<1>5. AskedOnce' /\ RequestsAreDue' /\ ResponsesAreTrue'
  BY <1>1, <1>4 DEF AskedOnce, RequestsAreDue, ResponsesAreTrue
<1>6. NumbersAreUnique' /\ \A d \in Calls : CallAt(d)'
  BY <1>1, <1>3 DEF NumbersAreUnique, CallAt
<1>7. InTurn' /\ AnswerIsOwn' /\ TwiceOnlyAfterLoss'
  BY <1>1, <1>2 DEF InTurn, AnswerIsOwn, TwiceOnlyAfterLoss
<1> QED
  BY <1>5, <1>6, <1>7

\* A one-shot worker executes a call that the connection has not answered.
LEMMA OneShotKeeps ==
  ASSUME WorkerInvariant, TypeOK', NEW c \in Calls, OneShot(c)
  PROVE  WorkerInvariant'
<1> USE DEF WorkerInvariant, process, pipes
<1>1. /\ pc[c] = "oneshot" /\ pc' = [pc EXCEPT ![c] = "done"]
      /\ UNCHANGED <<process, pipes, req, late, failed>>
  BY DEF OneShot, Return, Goto
<1>2. PICK what \in {"oneshot", "error", "empty"} : answer' = [answer EXCEPT ![c] = what]
  BY DEF OneShot, Return, Failure
<1>3. /\ runs[c].oneshot = 0 /\ runs'[c].worker = runs[c].worker
      /\ runs'[c].oneshot \in {0, 1} /\ \A d \in Calls : d # c => runs'[d] = runs[d]
  <2>1. runs[c].oneshot = 0 /\ runs \in [Calls -> Counts]
    BY <1>1 DEF CallAt, TypeOK, Counts
  <2>2. CASE runs' = [runs EXCEPT ![c].oneshot = @ + 1]
    BY <2>1, <2>2, OneShotCounts
  <2>3. CASE UNCHANGED runs
    BY <2>1, <2>3
  <2> QED
    BY <2>2, <2>3 DEF OneShot
<1>4. /\ pc'[c] = "done" /\ \A d \in Calls : d # c => pc'[d] = pc[d]
      /\ answer'[c] \notin Calls /\ \A d \in Calls : d # c => answer'[d] = answer[d]
  BY <1>1, <1>2, NamesAssumption DEF TypeOK, Answers
<1>5. Asked' = Asked /\ Said' = Said
  BY <1>1 DEF Asked, Said, Range
<1>6. AskedOnce' /\ RequestsAreDue' /\ ResponsesAreTrue'
  BY <1>1, <1>3, <1>5, MessagesType DEF AskedOnce, RequestsAreDue, ResponsesAreTrue
<1>7. NumbersAreUnique' /\ \A d \in Calls : CallAt(d)'
  BY <1>1, <1>3, <1>4, MessagesType DEF NumbersAreUnique, CallAt
<1>8. InTurn'
  <2>1. Undisturbed => \A m \in Asked \cup Said : m.call # c
    BY <1>1 DEF InTurn
  <2> QED
    BY <1>1, <1>3, <1>4, <1>5, <2>1, MessagesType DEF InTurn, Undisturbed
<1>9. AnswerIsOwn'
  BY <1>3, <1>4 DEF AnswerIsOwn
<1>10. TwiceOnlyAfterLoss'
  <2> SUFFICES ASSUME NEW d \in Calls
               PROVE  /\ runs'[d].worker <= 1 /\ runs'[d].oneshot <= 1
                      /\ runs'[d].worker + runs'[d].oneshot = 2 =>
                           late' # {} \/ d \in failed' \/ worker' = "dead"
    BY DEF TwiceOnlyAfterLoss
  <2>1. CASE d # c
    BY <1>1, <1>3, <2>1 DEF TwiceOnlyAfterLoss
  <2>2. CASE d = c
    <3>1. Undisturbed /\ c \notin failed => runs[c].worker = 0
      BY <1>1 DEF InTurn
    <3>2. runs[c].worker \in Nat /\ runs[c].worker <= 1
      BY MessagesType DEF CallAt
    <3> QED
      BY <1>1, <1>3, <2>2, <3>1, <3>2 DEF Undisturbed
  <2> QED
    BY <2>1, <2>2
<1> QED
  BY <1>6, <1>7, <1>8, <1>9, <1>10

\* One step per action; those that touch no pipe are settled here.
LEMMA WorkerNextInvariant == WorkerInvariant /\ [Next]_vars => WorkerInvariant'
<1> SUFFICES ASSUME WorkerInvariant, [Next]_vars PROVE WorkerInvariant'
  OBVIOUS
<1>1. TypeOK /\ TypeOK'
  BY WorkerNextType DEF WorkerInvariant
<1>2. CASE Start \/ Handshake \/ NoHandshake \/ UNCHANGED vars
  BY <1>1, <1>2, ProcessKeeps DEF Start, Handshake, NoHandshake, vars, process
<1>3. CASE Stop
  <2>1. UNCHANGED <<counter, stdout, buffer, calls, late, failed>>
    BY <1>3 DEF Stop
  <2> QED
    BY <1>1, <1>3, <2>1, StopCounts, EndKeeps DEF Stop
<1>4. CASE Take
  BY <1>1, <1>4, TakeKeeps
<1>5. CASE Respond
  BY <1>1, <1>5, RespondKeeps
<1>6. CASE Die
  <2>1. \A d \in Calls : /\ runs'[d].oneshot = runs[d].oneshot
                         /\ \/ runs'[d].worker = runs[d].worker
                            \/ /\ runs'[d].worker = runs[d].worker + 1
                               /\ \E m \in Asked : m.call = d
    <3>1. CASE busy # None /\ Execute(busy.call)
      <4>1. runs \in [Calls -> Counts] /\ busy \in Asked /\ busy.call \in Calls
        BY <1>1, <3>1, MessagesType DEF TypeOK, Counts, Asked
      <4>2. /\ runs'[busy.call].worker = runs[busy.call].worker + 1
            /\ runs'[busy.call].oneshot = runs[busy.call].oneshot
            /\ \A d \in Calls : d # busy.call => runs'[d] = runs[d]
        BY <3>1, <4>1, WorkerCounts DEF Execute
      <4> QED
        BY <4>1, <4>2
    <3>2. CASE UNCHANGED runs
      BY <3>2
    <3> QED
      BY <1>6, <3>1, <3>2 DEF Die
  <2> QED
    BY <1>1, <1>6, <2>1, EndKeeps DEF Die
<1>7. ASSUME NEW c \in Calls, Call(c) PROVE WorkerInvariant'
  BY <1>1, <1>7, EnterKeeps, SendKeeps, ReceiveKeeps, GiveUpKeeps, OneShotKeeps DEF Call
<1> QED
  BY <1>2, <1>3, <1>4, <1>5, <1>6, <1>7 DEF Next, Worker

\* The inductive invariant holds in every reachable state.
THEOREM WorkerInvariantHolds == Spec => []WorkerInvariant
<1> QED
  BY WorkerInitInvariant, WorkerNextInvariant, PTL DEF Spec

\* A response that is believed is the answer to the caller's own request, and
\* that request was executed exactly once (atspi_worker_connection.py:166).
THEOREM AnswersAreOwn == Spec => []AnswerIsOwn
<1>1. WorkerInvariant => AnswerIsOwn
  BY DEF WorkerInvariant
<1> QED
  BY <1>1, WorkerInvariantHolds, PTL

\* No call is executed more than twice, and none twice unless the connection
\* was disturbed (atspi_action_adapter.py:100-124, the fallback).
THEOREM SecondExecutionNeedsLoss == Spec => []TwiceOnlyAfterLoss
<1>1. WorkerInvariant => TwiceOnlyAfterLoss
  BY DEF WorkerInvariant
<1> QED
  BY <1>1, WorkerInvariantHolds, PTL

-----------------------------------------------------------------------------
(***************************************************************************)
(* Numbers in preorder.                                                    *)
(***************************************************************************)
\* p comes before q because of their i-th entries: there they differ for the first time.
BeforeAt(p, q, i) ==
  /\ i <= Len(q)
  /\ \A j \in 1 .. i - 1 : p[j] = q[j]
  /\ i <= Len(p) => p[i] < q[i]

LEMMA EqualUpTo ==
  ASSUME NEW p \in Seq(Nat), NEW q \in Seq(Nat), NEW n \in Nat, n <= Len(p), n <= Len(q)
  PROVE  SubSeq(p, 1, n) = SubSeq(q, 1, n) <=> \A j \in 1 .. n : p[j] = q[j]
<1>1. ASSUME NEW s \in Seq(Nat), n <= Len(s)
      PROVE  /\ SubSeq(s, 1, n) \in Seq(Nat) /\ Len(SubSeq(s, 1, n)) = n
             /\ \A j \in 1 .. n : SubSeq(s, 1, n)[j] = s[j]
  <2>1. Len(s) \in Nat /\ \A i \in 1 .. n : s[i] \in Nat
    BY <1>1
  <2>2. /\ SubSeq(s, 1, n) \in Seq(Nat)
        /\ Len(SubSeq(s, 1, n)) = IF 1 <= n THEN n - 1 + 1 ELSE 0
        /\ \A i \in 1 .. n - 1 + 1 : SubSeq(s, 1, n)[i] = s[1 + i - 1]
    BY <2>1, SubSeqProperties
  <2> QED
    BY <2>2
<1> HIDE <1>1
<1>2. ASSUME SubSeq(p, 1, n) = SubSeq(q, 1, n), NEW j \in 1 .. n PROVE p[j] = q[j]
  BY <1>1, <1>2
<1>3. ASSUME \A j \in 1 .. n : p[j] = q[j] PROVE SubSeq(p, 1, n) = SubSeq(q, 1, n)
  <2>1. \A j \in 1 .. n : SubSeq(p, 1, n)[j] = SubSeq(q, 1, n)[j]
    BY <1>1, <1>3
  <2> QED
    BY <1>1, <2>1, SeqEqual
<1> QED
  BY <1>2, <1>3

LEMMA BeforeIs ==
  ASSUME NEW p \in Seq(Nat), NEW q \in Seq(Nat)
  PROVE  Before(p, q) <=> \E i \in 1 .. Len(p) + 1 : BeforeAt(p, q, i)
<1>1. Len(p) \in Nat /\ Len(q) \in Nat
  OBVIOUS
<1>2. IsStrictPrefix(p, q) <=> BeforeAt(p, q, Len(p) + 1)
  <2>1. ASSUME Len(p) <= Len(q)
        PROVE  SubSeq(p, 1, Len(p)) = SubSeq(q, 1, Len(p)) <=> \A j \in 1 .. Len(p) : p[j] = q[j]
    BY <1>1, <2>1, EqualUpTo
  <2>2. ASSUME IsStrictPrefix(p, q) PROVE BeforeAt(p, q, Len(p) + 1)
    <3>1. Len(p) <= Len(q) /\ p # q /\ \A j \in 1 .. Len(p) : p[j] = q[j]
      BY <2>1, <2>2 DEF IsStrictPrefix, IsPrefix
    <3>2. Len(p) # Len(q)
      BY <3>1, SeqEqual
    <3> QED
      BY <1>1, <3>1, <3>2 DEF BeforeAt
  <2>3. ASSUME BeforeAt(p, q, Len(p) + 1) PROVE IsStrictPrefix(p, q)
    <3>1. Len(p) + 1 <= Len(q) /\ \A j \in 1 .. Len(p) : p[j] = q[j]
      BY <1>1, <2>3 DEF BeforeAt
    <3> QED
      BY <1>1, <2>1, <3>1 DEF IsStrictPrefix, IsPrefix
  <2> QED
    BY <2>2, <2>3
<1>3. ASSUME NEW i \in 1 .. Len(p)
      PROVE  /\ i <= Len(q)
             /\ SubSeq(p, 1, i - 1) = SubSeq(q, 1, i - 1)
             /\ p[i] < q[i]
             <=> BeforeAt(p, q, i)
  <2>1. i <= Len(q) => (SubSeq(p, 1, i - 1) = SubSeq(q, 1, i - 1)
                         <=> \A j \in 1 .. i - 1 : p[j] = q[j])
    BY <1>1, EqualUpTo
  <2> QED
    BY <1>1, <2>1 DEF BeforeAt
<1>4. 1 .. Len(p) + 1 = 1 .. Len(p) \cup {Len(p) + 1}
  BY <1>1
<1> QED
  BY <1>2, <1>3, <1>4 DEF Before

LEMMA NotBeforeItself ==
  ASSUME NEW p \in Seq(Nat)
  PROVE  ~Before(p, p)
<1>1. ASSUME NEW i \in 1 .. Len(p) + 1 PROVE ~BeforeAt(p, p, i)
  BY DEF BeforeAt
<1> QED
  BY <1>1, BeforeIs

LEMMA BeforeAndBefore ==
  ASSUME NEW p \in Seq(Nat), NEW q \in Seq(Nat), NEW r \in Seq(Nat),
         Before(p, q), Before(q, r)
  PROVE  Before(p, r)
<1>1. PICK i \in 1 .. Len(p) + 1 : BeforeAt(p, q, i)
  BY BeforeIs
<1>2. PICK j \in 1 .. Len(q) + 1 : BeforeAt(q, r, j)
  BY BeforeIs
<1>3. Len(p) \in Nat /\ Len(q) \in Nat /\ Len(r) \in Nat
  OBVIOUS
<1>4. CASE i < j
  <2>1. BeforeAt(p, r, i)
    BY <1>1, <1>2, <1>3, <1>4 DEF BeforeAt
  <2> QED
    BY <2>1, BeforeIs
<1>5. CASE i = j
  <2>1. i <= Len(q) /\ j <= Len(r)
    BY <1>1, <1>2 DEF BeforeAt
  <2>2. i <= Len(p) => p[i] < q[i] /\ q[i] < r[i] /\ p[i] \in Nat /\ q[i] \in Nat /\ r[i] \in Nat
    BY <1>1, <1>2, <1>3, <1>5, <2>1 DEF BeforeAt
  <2>3. BeforeAt(p, r, i)
    BY <1>1, <1>2, <1>3, <1>5, <2>1, <2>2 DEF BeforeAt
  <2> QED
    BY <2>3, BeforeIs
<1>6. CASE j < i
  <2>1. BeforeAt(p, r, j) /\ j \in 1 .. Len(p) + 1
    BY <1>1, <1>2, <1>3, <1>6 DEF BeforeAt
  <2> QED
    BY <2>1, BeforeIs
<1> QED
  BY <1>4, <1>5, <1>6

LEMMA OneIsBefore ==
  ASSUME NEW p \in Seq(Nat), NEW q \in Seq(Nat), p # q
  PROVE  Before(p, q) \/ Before(q, p)
<1>1. Len(p) \in Nat /\ Len(q) \in Nat
  OBVIOUS
<1> DEFINE Differ == {i \in Nat : i >= 1 /\ i <= Len(p) /\ i <= Len(q) /\ p[i] # q[i]}
<1>2. CASE Differ = {}
  <2>1. \A i \in Nat : i >= 1 /\ i <= Len(p) /\ i <= Len(q) => p[i] = q[i]
    BY <1>2
  <2>2. Len(p) # Len(q)
    BY <1>1, <2>1, SeqEqual
  <2>3. CASE Len(p) < Len(q)
    <3>1. BeforeAt(p, q, Len(p) + 1) /\ Len(p) + 1 \in 1 .. Len(p) + 1
      BY <1>1, <2>1, <2>3 DEF BeforeAt
    <3> QED
      BY <3>1, BeforeIs
  <2>4. CASE Len(q) < Len(p)
    <3>1. BeforeAt(q, p, Len(q) + 1) /\ Len(q) + 1 \in 1 .. Len(q) + 1
      BY <1>1, <2>1, <2>4 DEF BeforeAt
    <3> QED
      BY <3>1, BeforeIs
  <2> QED
    BY <1>1, <2>2, <2>3, <2>4
<1>3. CASE Differ # {}
  <2>1. PICK i \in Differ : \A j \in Differ : ~(<<j, i>> \in OpToRel(<, Nat))
    BY <1>3, NatLessThanWellFounded, WFMin
  <2>2. \A j \in Differ : ~(j < i)
    BY <2>1 DEF OpToRel
  <2>3. \A j \in 1 .. i - 1 : p[j] = q[j]
    BY <1>1, <2>2
  <2>4. /\ i \in 1 .. Len(p) /\ i \in 1 .. Len(q) /\ p[i] # q[i]
        /\ p[i] \in Nat /\ q[i] \in Nat
    BY <1>1
  <2>5. CASE p[i] < q[i]
    <3>1. BeforeAt(p, q, i) /\ i \in 1 .. Len(p) + 1
      BY <1>1, <2>3, <2>4, <2>5 DEF BeforeAt
    <3> QED
      BY <3>1, BeforeIs
  <2>6. CASE q[i] < p[i]
    <3>1. BeforeAt(q, p, i) /\ i \in 1 .. Len(q) + 1
      BY <1>1, <2>3, <2>4, <2>6 DEF BeforeAt
    <3> QED
      BY <3>1, BeforeIs
  <2> QED
    BY <2>4, <2>5, <2>6
<1> QED
  BY <1>2, <1>3

\* No two elements of a walk have the same number.
LEMMA LaterIsGreater ==
  ASSUME NEW W, IsFiniteSet(W), W \subseteq Seq(Nat), NEW p \in W, NEW q \in W, Before(p, q)
  PROVE  NumberIn(W, p) # NumberIn(W, q)
<1> DEFINE UpTo(r) == {x \in W : x = r \/ Before(x, r)}
<1>1. UpTo(p) \subseteq UpTo(q)
  BY BeforeAndBefore
<1>2. q \in UpTo(q) /\ q \notin UpTo(p)
  <2>1. q # p /\ ~Before(q, p)
    BY NotBeforeItself, BeforeAndBefore
  <2> QED
    BY <2>1
<1>3. IsFiniteSet(UpTo(q))
  BY FS_Subset
<1>4. Cardinality(UpTo(p)) # Cardinality(UpTo(q))
  <2> HIDE DEF UpTo
  <2> QED
    BY <1>1, <1>2, <1>3, FS_Subset
<1> QED
  BY <1>4 DEF NumberIn

LEMMA NumbersDiffer ==
  ASSUME NEW W, IsFiniteSet(W), W \subseteq Seq(Nat), NEW p \in W, NEW q \in W,
         NumberIn(W, p) = NumberIn(W, q)
  PROVE  p = q
BY OneIsBefore, LaterIsGreater

LEMMA TreeIsNumbered ==
  ASSUME NEW s \in Screens, NEW f
  PROVE  OneEach(TreeOf(s, f))
<1> DEFINE walked == {p \in DOMAIN s : ~Cut(f.gone \cup f.mute, p)}
<1>1. IsFiniteSet(walked) /\ walked \subseteq Seq(Nat)
  BY ScreensAssumption, FS_Subset
<1>2. ASSUME NEW p \in walked, NEW q \in walked, NumberIn(walked, p) = NumberIn(walked, q)
      PROVE  p = q
  <2> HIDE DEF walked
  <2> QED
    BY <1>1, <1>2, NumbersDiffer
<1>3. TreeOf(s, f) = {[path |-> p, id |-> NumberIn(walked, p), label |-> s[p]] : p \in walked}
  BY DEF TreeOf
<1> HIDE DEF walked
<1>4. ASSUME NEW p \in walked PROVE NumberIn(walked, p) \in Nat
  <2>1. IsFiniteSet({q \in walked : q = p \/ Before(q, p)})
    BY <1>1, FS_Subset
  <2> QED
    BY <2>1, FS_CardinalityType DEF NumberIn
<1> QED
  BY <1>2, <1>3, <1>4 DEF OneEach

-----------------------------------------------------------------------------
(***************************************************************************)
(* What a step does to the calls.                                          *)
(***************************************************************************)
RefType(c) ==
  /\ DOMAIN call[c] = Fields
  /\ call[c].op \in {"none", "look", "diff", "act", "do", "menu"}
  /\ call[c].pc \in {"idle", "read", "readCat", "readRm", "got", "write",
                     "target", "targetCat", "targetRm", "aim", "resolve"}
  /\ call[c].began \in 0 .. Len(hist)
  /\ call[c].tree.at \in 0 .. Len(hist)
  /\ known[c].at \in 0 .. Len(hist)

FreshAt(c) ==
  /\ call[c].tree # NoTree
  /\ \/ call[c].op \in {"look", "diff", "do"}
     \/ call[c].op = "act" /\ call[c].pc \in {"targetRm", "aim"}
  => call[c].tree.at >= call[c].began

\* All that the invariant says of the call c.
Right(c) == RefType(c) /\ RefAt(c) /\ FreshAt(c)

LEMMA InvariantIs ==
  RefsInvariant <=>
    /\ backend \in {"linux", "android"}
    /\ hist \in Seq(Screens) /\ hist # <<>>
    /\ file.state \in {"none", "torn", "whole"}
    /\ file.at \in 0 .. Len(hist) /\ dump \in 0 .. Len(hist)
    /\ call = [c \in Callers |-> call[c]] /\ known = [c \in Callers |-> known[c]]
    /\ FileAt
    /\ \A c \in Callers : Right(c)
BY DEF RefsInvariant, RefsTypeOK, RefType, FreshAt, DumpIsFresh, Right

\* What a step may do to what the calls share.
Around ==
  /\ backend' = backend
  /\ hist' \in Seq(Screens) /\ Len(hist') >= Len(hist)
  /\ \A k \in 1 .. Len(hist) : hist'[k] = hist[k]
  /\ dump' \in {dump, 0, Len(hist)}

LEMMA OthersKept ==
  ASSUME RefsInvariant, Around, NEW c \in Callers, call'[c] = call[c], known'[c] = known[c]
  PROVE  Right(c)'
<1>1. /\ RefType(c) /\ RefAt(c) /\ FreshAt(c)
      /\ hist \in Seq(Screens) /\ Len(hist) \in Nat /\ Len(hist') \in Nat
      /\ dump \in 0 .. Len(hist)
  BY InvariantIs DEF Right, Around
<1>2. RefType(c)' /\ FreshAt(c)'
  BY <1>1 DEF Around, RefType, FreshAt
<1>3. call[c].pc # "idle" /\ ReadWhole(c) => ReadWhole(c)'
  BY <1>1 DEF Around, ReadWhole, RefType, RefAt
<1>4. \A nodes : Found(c, nodes)' <=> Found(c, nodes)
  BY DEF Found
<1>5. RefAt(c)'
  BY <1>1, <1>3, <1>4 DEF Around, RefType, RefAt
<1> QED
  BY <1>2, <1>5 DEF Right

LEMMA IdleIsRight ==
  ASSUME RefsInvariant, Around, NEW c \in Callers, call'[c] = Idle,
         known'[c].at \in 0 .. Len(hist')
  PROVE  Right(c)'
<1>1. Len(hist') \in Nat
  BY DEF Around
<1>2. /\ DOMAIN Idle = Fields
      /\ Idle.op = "none" /\ Idle.pc = "idle" /\ Idle.began = 0
      /\ Idle.tree = NoTree /\ NoTree.at = 0 /\ NoTree.nodes = {}
      /\ Idle.left = 0
  BY DEF Idle, NoTree, Fields
<1> QED
  BY <1>1, <1>2 DEF Around, Right, RefType, RefAt, FreshAt, OneEach

FileRight ==
  file.state \in {"none", "torn", "whole"} /\ file.at \in 0 .. Len(hist) /\ FileAt

LEMMA FileKept ==
  ASSUME RefsInvariant, Around, file' = file
  PROVE  FileRight'
BY InvariantIs DEF Around, FileRight, FileAt

\* A step of the call c, after which the call and the file are right.
LEMMA StepIs ==
  ASSUME RefsInvariant, Around, FileRight', NEW c \in Callers, NEW x,
         call' = [call EXCEPT ![c] = x],
         known' = [d \in Callers |-> known'[d]],
         \A d \in Callers \ {c} : known'[d] = known[d],
         Right(c)'
  PROVE  RefsInvariant'
<1>1. call' = [d \in Callers |-> call'[d]]
  BY InvariantIs
<1>2. \A d \in Callers \ {c} : call'[d] = call[d] /\ known'[d] = known[d]
  BY InvariantIs
<1>3. \A d \in Callers : Right(d)'
  BY <1>2, OthersKept
<1>4. /\ hist' # <<>> /\ dump' \in 0 .. Len(hist')
      /\ backend' \in {"linux", "android"} /\ hist' \in Seq(Screens)
  BY InvariantIs DEF Around
<1> QED
  BY <1>1, <1>3, <1>4
  DEF FileRight, RefsInvariant, RefsTypeOK, RefType, FreshAt, DumpIsFresh, Right

\* What With makes of the fields.
LEMMA WithIs ==
  ASSUME NEW s, NEW r, DOMAIN s = Fields
  PROVE  /\ DOMAIN With(r, s) = Fields
         /\ With(r, s).op = IF "op" \in DOMAIN r THEN r.op ELSE s.op
         /\ With(r, s).pc = IF "pc" \in DOMAIN r THEN r.pc ELSE s.pc
         /\ With(r, s).id = IF "id" \in DOMAIN r THEN r.id ELSE s.id
         /\ With(r, s).tree = IF "tree" \in DOMAIN r THEN r.tree ELSE s.tree
         /\ With(r, s).names = IF "names" \in DOMAIN r THEN r.names ELSE s.names
         /\ With(r, s).left = IF "left" \in DOMAIN r THEN r.left ELSE s.left
         /\ With(r, s).began = IF "began" \in DOMAIN r THEN r.began ELSE s.began
<1>1. {"op", "pc", "id", "tree", "names", "left", "began"} \subseteq Fields
  BY DEF Fields, Idle
<1> QED
  BY <1>1 DEF With

LEMMA SetIs ==
  ASSUME RefsInvariant, NEW c \in Callers, NEW r, Set(c, r)
  PROVE  call' = [call EXCEPT ![c] = With(r, call[c])] /\ call'[c] = With(r, call[c])
         /\ DOMAIN call[c] = Fields
<1>1. call = [d \in Callers |-> call[d]] /\ DOMAIN call[c] = Fields
  BY InvariantIs DEF Right, RefType
<1> QED
  BY <1>1 DEF Set

LEMMA SetFields ==
  ASSUME RefsInvariant, NEW c \in Callers, NEW r, Set(c, r)
  PROVE  /\ \E x : call' = [call EXCEPT ![c] = x]
         /\ DOMAIN call'[c] = Fields
         /\ call'[c].began = IF "began" \in DOMAIN r THEN r.began ELSE call[c].began
         /\ call'[c].op = IF "op" \in DOMAIN r THEN r.op ELSE call[c].op
         /\ call'[c].pc = IF "pc" \in DOMAIN r THEN r.pc ELSE call[c].pc
         /\ call'[c].id = IF "id" \in DOMAIN r THEN r.id ELSE call[c].id
         /\ call'[c].tree = IF "tree" \in DOMAIN r THEN r.tree ELSE call[c].tree
         /\ call'[c].names = IF "names" \in DOMAIN r THEN r.names ELSE call[c].names
         /\ call'[c].left = IF "left" \in DOMAIN r THEN r.left ELSE call[c].left
BY SetIs, WithIs

\* What a step leaves that reads or changes no more than its own call.
Alone == UNCHANGED <<backend, hist, file, dump, known>>

LEMMA AloneIs ==
  ASSUME RefsInvariant, Alone, NEW c \in Callers, NEW x,
         call' = [call EXCEPT ![c] = x], Right(c)'
  PROVE  RefsInvariant'
<1>1. Around
  BY InvariantIs DEF Alone, Around
<1>2. FileRight'
  BY <1>1, FileKept DEF Alone
<1>3. known' = [d \in Callers |-> known'[d]] /\ \A d \in Callers \ {c} : known'[d] = known[d]
  BY InvariantIs DEF Alone
<1> QED
  BY <1>1, <1>2, <1>3, StepIs

LEMMA EndIsRight ==
  ASSUME RefsInvariant, Around, UNCHANGED known, NEW c \in Callers, End(c)
  PROVE  Right(c)' /\ call' = [call EXCEPT ![c] = Idle]
<1>1. call'[c] = Idle /\ call' = [call EXCEPT ![c] = Idle]
  BY InvariantIs DEF End
<1>2. known'[c].at \in 0 .. Len(hist')
  BY InvariantIs DEF Right, RefType, Around
<1> QED
  BY <1>1, <1>2, IdleIsRight

LEMMA EndAloneIs ==
  ASSUME RefsInvariant, Alone, NEW c \in Callers, End(c)
  PROVE  RefsInvariant'
<1>1. Around
  BY InvariantIs DEF Alone, Around
<1> QED
  BY <1>1, EndIsRight, AloneIs DEF Alone

-----------------------------------------------------------------------------
(***************************************************************************)
(* Calls begin.                                                            *)
(***************************************************************************)
LEMMA BeginIs ==
  ASSUME RefsInvariant, NEW c \in Callers, NEW r, Begin(c, r)
  PROVE  /\ Alone
         /\ call' = [call EXCEPT ![c] = With([began |-> Len(hist)], With(r, Idle))]
         /\ DOMAIN call'[c] = Fields
         /\ call'[c].began = Len(hist)
         /\ call'[c].op = IF "op" \in DOMAIN r THEN r.op ELSE "none"
         /\ call'[c].pc = IF "pc" \in DOMAIN r THEN r.pc ELSE "idle"
         /\ call'[c].id = IF "id" \in DOMAIN r THEN r.id ELSE 0
         /\ call'[c].tree = IF "tree" \in DOMAIN r THEN r.tree ELSE NoTree
         /\ call'[c].names = IF "names" \in DOMAIN r THEN r.names ELSE <<>>
         /\ call'[c].left = IF "left" \in DOMAIN r THEN r.left ELSE 0
<1> DEFINE b == [began |-> Len(hist)]
           s == With(r, Idle)
<1>1. Alone /\ call' = [call EXCEPT ![c] = With(b, s)] /\ call'[c] = With(b, s)
  BY InvariantIs DEF Begin, Alone
<1>2. DOMAIN Idle = Fields
  BY DEF Fields
<1>3. DOMAIN b = {"began"} /\ b.began = Len(hist)
  OBVIOUS
<1>4. /\ Idle.op = "none" /\ Idle.pc = "idle" /\ Idle.id = 0
      /\ Idle.tree = NoTree /\ Idle.names = <<>> /\ Idle.left = 0
  BY DEF Idle
<1>5. /\ DOMAIN s = Fields
      /\ s.op = IF "op" \in DOMAIN r THEN r.op ELSE Idle.op
      /\ s.pc = IF "pc" \in DOMAIN r THEN r.pc ELSE Idle.pc
      /\ s.id = IF "id" \in DOMAIN r THEN r.id ELSE Idle.id
      /\ s.tree = IF "tree" \in DOMAIN r THEN r.tree ELSE Idle.tree
      /\ s.names = IF "names" \in DOMAIN r THEN r.names ELSE Idle.names
      /\ s.left = IF "left" \in DOMAIN r THEN r.left ELSE Idle.left
  <2> HIDE DEF b
  <2> QED
    BY <1>2, WithIs
<1> HIDE DEF b, s
<1>6. /\ DOMAIN With(b, s) = Fields /\ With(b, s).began = b.began
      /\ With(b, s).op = s.op /\ With(b, s).pc = s.pc /\ With(b, s).id = s.id
      /\ With(b, s).tree = s.tree
      /\ With(b, s).names = s.names /\ With(b, s).left = s.left
  BY <1>3, <1>5, WithIs
<1> QED
  BY <1>1, <1>3, <1>4, <1>5, <1>6 DEF b, s

\* What a call may begin with: the file is right about its nodes.
LEMMA StoredIs ==
  ASSUME RefsInvariant
  PROVE  /\ OneEach(file.nodes)
         /\ file.state # "whole" => file.nodes = {}
         /\ file.at \in 0 .. Len(hist) /\ Len(hist) \in Nat /\ Len(hist) > 0
<1>1. hist \in Seq(Screens) /\ hist # <<>> /\ FileAt /\ file.at \in 0 .. Len(hist)
  BY InvariantIs
<1> QED
  BY <1>1 DEF FileAt, OneEach

LEMMA BegunIsRight ==
  ASSUME RefsInvariant, NEW c \in Callers, Alone,
         NEW x, call' = [call EXCEPT ![c] = x],
         DOMAIN call'[c] = Fields, call'[c].began = Len(hist),
         call'[c].op \in {"look", "diff", "act", "do", "menu"},
         call'[c].pc \in {"read", "got", "target", "resolve"},
         call'[c].left = 0,
         \/ call'[c].tree = NoTree
         \/ call'[c].tree.nodes = file.nodes /\ call'[c].tree.at = file.at,
         RefAt(c)', FreshAt(c)'
  PROVE  RefsInvariant'
<1>1. known[c].at \in 0 .. Len(hist)
  BY InvariantIs DEF Right, RefType
<1>2. NoTree.at = 0
  BY DEF NoTree
<1>3. RefType(c)'
  BY <1>1, <1>2, StoredIs DEF RefType, Alone
<1> QED
  BY <1>3, AloneIs DEF Right

LEMMA KnownBefore ==
  ASSUME RefsInvariant, NEW c \in Callers
  PROVE  known[c].at \in 0 .. Len(hist) /\ Len(hist) \in Nat /\ Len(hist) > 0
BY StoredIs, InvariantIs DEF Right, RefType

LEMMA NothingRead ==
  NoTree.at = 0 /\ NoTree.nodes = {} /\ OneEach({})
BY DEF NoTree, OneEach

LEMMA LookBegins ==
  ASSUME RefsInvariant, NEW c \in Callers, StartLook(c)
  PROVE  RefsInvariant'
<1> DEFINE r == [op |-> "look", pc |-> "read"]
<1>1. Begin(c, r)
  BY DEF StartLook
<1>2. DOMAIN r = {"op", "pc"} /\ r.op = "look" /\ r.pc = "read"
  OBVIOUS
<1> HIDE DEF r
<1>3. /\ call'[c].op = "look" /\ call'[c].pc = "read"
      /\ call'[c].tree = NoTree /\ call'[c].left = 0 /\ call'[c].began = Len(hist)
  BY <1>1, <1>2, BeginIs
<1>4. RefAt(c)' /\ FreshAt(c)'
  BY <1>1, <1>3, BeginIs, KnownBefore, NothingRead DEF RefAt, FreshAt, Alone
<1> QED
  BY <1>1, <1>3, <1>4, BeginIs, BegunIsRight

LEMMA DoBegins ==
  ASSUME RefsInvariant, NEW c \in Callers, NEW l, StartDo(c, l)
  PROVE  RefsInvariant'
<1> DEFINE r == [op |-> "do", pc |-> "read", names |-> <<l>>]
<1>1. Begin(c, r)
  BY DEF StartDo
<1>2. DOMAIN r = {"op", "pc", "names"} /\ r.op = "do" /\ r.pc = "read"
  OBVIOUS
<1> HIDE DEF r
<1>3. /\ call'[c].op = "do" /\ call'[c].pc = "read"
      /\ call'[c].tree = NoTree /\ call'[c].left = 0 /\ call'[c].began = Len(hist)
  BY <1>1, <1>2, BeginIs
<1>4. RefAt(c)' /\ FreshAt(c)'
  BY <1>1, <1>3, BeginIs, KnownBefore, NothingRead DEF RefAt, FreshAt, Alone
<1> QED
  BY <1>1, <1>3, <1>4, BeginIs, BegunIsRight

LEMMA DiffBegins ==
  ASSUME RefsInvariant, NEW c \in Callers, StartDiff(c)
  PROVE  RefsInvariant'
<1> DEFINE r == [op |-> "diff", pc |-> "read"]
<1>1. Begin(c, r)
  BY DEF StartDiff
<1>2. DOMAIN r = {"op", "pc"} /\ r.op = "diff" /\ r.pc = "read"
  OBVIOUS
<1> HIDE DEF r
<1>3. /\ call'[c].op = "diff" /\ call'[c].pc = "read"
      /\ call'[c].tree = NoTree /\ call'[c].left = 0 /\ call'[c].began = Len(hist)
  BY <1>1, <1>2, BeginIs
<1>4. RefAt(c)' /\ FreshAt(c)'
  BY <1>1, <1>3, BeginIs, StoredIs, KnownBefore, NothingRead
  DEF RefAt, FreshAt, Alone
<1> QED
  BY <1>1, <1>3, <1>4, BeginIs, BegunIsRight

LEMMA ActBegins ==
  ASSUME RefsInvariant, NEW c \in Callers, NEW id, StartAct(c, id)
  PROVE  RefsInvariant'
<1> DEFINE t == [at |-> file.at, nodes |-> file.nodes]
           q == IF backend = "linux" THEN "resolve" ELSE "target"
           r == [op |-> "act", id |-> id, pc |-> q, tree |-> t]
<1>1. Begin(c, r) /\ (file.state = "none" \/ \E n \in file.nodes : n.id = id)
  BY DEF StartAct
<1>2. /\ DOMAIN r = {"op", "id", "pc", "tree"} /\ r.op = "act" /\ r.id = id
      /\ r.pc = q /\ r.tree = t /\ t.at = file.at /\ t.nodes = file.nodes
  OBVIOUS
<1> HIDE DEF r, t
<1>3. /\ call'[c].op = "act" /\ call'[c].pc = q
      /\ call'[c].tree.nodes = file.nodes /\ call'[c].tree.at = file.at
      /\ call'[c].id = id /\ call'[c].left = 0 /\ call'[c].began = Len(hist)
  BY <1>1, <1>2, BeginIs
<1>4. RefAt(c)' /\ FreshAt(c)'
  BY <1>1, <1>3, BeginIs, StoredIs, KnownBefore, NothingRead
  DEF RefAt, FreshAt, Alone
<1> QED
  BY <1>1, <1>3, <1>4, BeginIs, BegunIsRight

LEMMA MenuBegins ==
  ASSUME RefsInvariant, NEW c \in Callers, NEW m, StartMenu(c, m)
  PROVE  RefsInvariant'
<1> DEFINE t == [at |-> file.at, nodes |-> file.nodes]
           q == IF file.state = "none" THEN "read" ELSE "got"
           r == [op |-> "menu", names |-> m, pc |-> q, tree |-> t]
<1>1. Begin(c, r) /\ backend = "linux"
  BY DEF StartMenu
<1>2. /\ DOMAIN r = {"op", "names", "pc", "tree"} /\ r.op = "menu"
      /\ r.pc = q /\ r.tree = t /\ t.at = file.at /\ t.nodes = file.nodes
  OBVIOUS
<1> HIDE DEF r, t
<1>3. /\ call'[c].op = "menu" /\ call'[c].pc = q
      /\ call'[c].tree.nodes = file.nodes /\ call'[c].tree.at = file.at
      /\ call'[c].left = 0 /\ call'[c].began = Len(hist)
  BY <1>1, <1>2, BeginIs
<1>4. RefAt(c)' /\ FreshAt(c)'
  BY <1>1, <1>3, BeginIs, StoredIs, KnownBefore, NothingRead
  DEF RefAt, FreshAt, Alone
<1> QED
  BY <1>1, <1>3, <1>4, BeginIs, BegunIsRight

-----------------------------------------------------------------------------
(***************************************************************************)
(* Calls read.                                                             *)
(***************************************************************************)
LEMMA CallIs ==
  ASSUME RefsInvariant, NEW c \in Callers
  PROVE  /\ RefType(c) /\ RefAt(c) /\ FreshAt(c)
         /\ hist \in Seq(Screens) /\ Len(hist) \in Nat /\ Len(hist) > 0
         /\ dump \in 0 .. Len(hist) /\ backend \in {"linux", "android"}
         /\ screen = hist[Len(hist)]
<1>1. hist \in Seq(Screens) /\ hist # <<>>
  BY InvariantIs
<1> QED
  BY <1>1, InvariantIs DEF Right, screen, Last

\* A step of a call that may also write or remove the dump.
LEMMA ReadStep ==
  ASSUME RefsInvariant, NEW c \in Callers, NEW r, Set(c, r),
         UNCHANGED <<backend, hist, file, known>>, dump' \in {dump, 0, Len(hist)},
         Right(c)'
  PROVE  RefsInvariant'
<1>1. Around
  BY InvariantIs DEF Around
<1>2. FileRight'
  BY <1>1, FileKept
<1>3. PICK x : call' = [call EXCEPT ![c] = x]
  BY SetFields
<1>4. known' = [d \in Callers |-> known'[d]] /\ \A d \in Callers \ {c} : known'[d] = known[d]
  BY InvariantIs
<1> QED
  BY <1>1, <1>2, <1>3, <1>4, StepIs

\* The call has a tree of the screen now shown.
LEMMA GotIs ==
  ASSUME RefsInvariant, NEW c \in Callers, Reads(c), NEW nodes, OneEach(nodes),
         Got(c, [at |-> Len(hist), nodes |-> nodes]),
         backend = "android" => nodes = TreeOf(screen, Whole),
         UNCHANGED <<backend, hist, file, dump, known>>
  PROVE  RefsInvariant'
<1> DEFINE t == [at |-> Len(hist), nodes |-> nodes]
           q == IF call[c].pc = "read" THEN "got" ELSE "aim"
           r == [pc |-> q, tree |-> t]
<1>1. Set(c, r)
  BY DEF Got
<1>2. DOMAIN r = {"pc", "tree"} /\ r.pc = q /\ r.tree = t /\ t.at = Len(hist) /\ t.nodes = nodes
  OBVIOUS
<1> HIDE DEF r, t
<1>3. /\ DOMAIN call'[c] = Fields
      /\ call'[c].op = call[c].op /\ call'[c].pc = q
      /\ call'[c].tree = t /\ call'[c].names = call[c].names /\ call'[c].id = call[c].id
      /\ call'[c].left = call[c].left /\ call'[c].began = call[c].began
  BY <1>1, <1>2, SetFields
<1>4. /\ RefType(c) /\ RefAt(c) /\ Len(hist) \in Nat /\ Len(hist) > 0
      /\ screen = hist[Len(hist)] /\ backend \in {"linux", "android"}
  BY CallIs
<1>5. RefType(c)' /\ FreshAt(c)'
  BY <1>2, <1>3, <1>4 DEF RefType, FreshAt, Reads
<1>6. backend = "android" => ReadWhole(c)'
  BY <1>2, <1>3, <1>4 DEF ReadWhole, RefType
<1>7. \A ns : Found(c, ns)' <=> Found(c, ns)
  BY <1>3 DEF Found
<1>8. RefAt(c)'
  BY <1>2, <1>3, <1>4, <1>6, <1>7 DEF RefAt, Reads
<1> QED
  BY <1>1, <1>5, <1>8, ReadStep DEF Right

LEMMA ScreenIsNumbered ==
  ASSUME RefsInvariant, NEW f, NEW k \in 1 .. Len(hist)
  PROVE  OneEach(TreeOf(hist[k], f)) /\ hist[k] \in Screens
<1>1. hist[k] \in Screens
  BY InvariantIs
<1> QED
  BY <1>1, TreeIsNumbered

LEMMA ScreenIs ==
  ASSUME RefsInvariant
  PROVE  screen \in Screens /\ \A f : OneEach(TreeOf(screen, f))
<1>1. hist \in Seq(Screens) /\ Len(hist) \in Nat /\ Len(hist) > 0 /\ screen = hist[Len(hist)]
  BY StoredIs, InvariantIs DEF screen, Last
<1>2. Len(hist) \in 1 .. Len(hist)
  BY <1>1
<1> QED
  BY <1>1, <1>2, ScreenIsNumbered

LEMMA WalkIsRead ==
  ASSUME RefsInvariant, NEW c \in Callers, NEW f, ReadWalk(c, f)
  PROVE  RefsInvariant'
<1>1. OneEach(TreeOf(screen, f)) /\ backend # "android"
  BY ScreenIs DEF ReadWalk
<1> QED
  BY <1>1, GotIs DEF ReadWalk

LEMMA PipeIsRead ==
  ASSUME RefsInvariant, NEW c \in Callers, ReadPipe(c)
  PROVE  RefsInvariant'
<1>1. OneEach(TreeOf(screen, Whole))
  BY ScreenIs
<1> QED
  BY <1>1, GotIs DEF ReadPipe

LEMMA DumpIsWritten ==
  ASSUME RefsInvariant, NEW c \in Callers, DumpFile(c)
  PROVE  RefsInvariant'
<1> DEFINE q == IF call[c].pc = "read" THEN "readCat" ELSE "targetCat"
           r == [pc |-> q]
<1>1. Set(c, r) /\ Reads(c) /\ backend = "android" /\ dump' = Len(hist)
      /\ UNCHANGED <<backend, hist, file, known>>
  BY DEF DumpFile
<1>2. DOMAIN r = {"pc"} /\ r.pc = q
  OBVIOUS
<1> HIDE DEF r
<1>3. /\ DOMAIN call'[c] = Fields
      /\ call'[c].op = call[c].op /\ call'[c].pc = q
      /\ call'[c].tree = call[c].tree /\ call'[c].names = call[c].names
      /\ call'[c].id = call[c].id
      /\ call'[c].left = call[c].left /\ call'[c].began = call[c].began
  BY <1>1, <1>2, SetFields
<1>4. RefType(c) /\ RefAt(c) /\ FreshAt(c) /\ Len(hist) \in Nat /\ Len(hist) > 0
  BY CallIs
<1>5. RefType(c)' /\ FreshAt(c)'
  BY <1>1, <1>3, <1>4 DEF RefType, FreshAt
<1>7. \A ns : Found(c, ns)' <=> Found(c, ns)
  BY <1>3 DEF Found
<1>8. RefAt(c)'
  BY <1>1, <1>3, <1>4, <1>7 DEF RefAt, RefType, Reads
<1> QED
  BY <1>1, <1>5, <1>8, ReadStep DEF Right

LEMMA DumpIsRead ==
  ASSUME RefsInvariant, NEW c \in Callers, CatFile(c)
  PROVE  RefsInvariant'
<1> DEFINE t == IF dump = 0 THEN NoTree ELSE [at |-> dump, nodes |-> TreeOf(hist[dump], Whole)]
           q == IF call[c].pc = "readCat" THEN "readRm" ELSE "targetRm"
           r == [pc |-> q, tree |-> t]
<1>1. Set(c, r) /\ call[c].pc \in {"readCat", "targetCat"}
      /\ UNCHANGED <<backend, hist, file, dump, known>>
  BY DEF CatFile
<1>2. /\ DOMAIN r = {"pc", "tree"} /\ r.pc = q /\ r.tree = t
      /\ dump # 0 => t.at = dump /\ t.nodes = TreeOf(hist[dump], Whole)
      /\ dump = 0 => t = NoTree
  OBVIOUS
<1> HIDE DEF r, t
<1>3. /\ DOMAIN call'[c] = Fields
      /\ call'[c].op = call[c].op /\ call'[c].pc = q
      /\ call'[c].tree = t /\ call'[c].names = call[c].names /\ call'[c].id = call[c].id
      /\ call'[c].left = call[c].left /\ call'[c].began = call[c].began
  BY <1>1, <1>2, SetFields
<1>4. RefType(c) /\ RefAt(c) /\ Len(hist) \in Nat /\ Len(hist) > 0 /\ dump \in 0 .. Len(hist)
  BY CallIs
<1>5. dump = 0 \/ dump >= call[c].began
  BY <1>1, <1>4 DEF RefAt
<1>6. t.at \in 0 .. Len(hist) /\ OneEach(t.nodes)
  <2>1. CASE dump = 0
    BY <1>2, <1>4, <2>1, NothingRead
  <2>2. CASE dump # 0
    <3>1. dump \in 1 .. Len(hist)
      BY <1>4, <2>2
    <3> QED
      BY <1>2, <1>4, <2>2, <3>1, ScreenIsNumbered
  <2> QED
    BY <2>1, <2>2
<1>7. RefType(c)' /\ FreshAt(c)'
  BY <1>1, <1>2, <1>3, <1>4, <1>5, <1>6, NothingRead DEF RefType, FreshAt
<1>8. ReadWhole(c)'
  BY <1>1, <1>2, <1>3, <1>4, <1>5 DEF ReadWhole, RefType
<1>9. \A ns : Found(c, ns)' <=> Found(c, ns)
  BY <1>3 DEF Found
<1>10. RefAt(c)'
  BY <1>1, <1>3, <1>4, <1>6, <1>8, <1>9 DEF RefAt, RefType
<1> QED
  BY <1>1, <1>7, <1>10, ReadStep DEF Right

LEMMA EndStep ==
  ASSUME RefsInvariant, NEW c \in Callers, End(c),
         UNCHANGED <<backend, hist, file, known>>, dump' \in {dump, 0, Len(hist)}
  PROVE  RefsInvariant'
<1>1. Around
  BY InvariantIs DEF Around
<1>2. FileRight'
  BY <1>1, FileKept
<1>3. Right(c)' /\ call' = [call EXCEPT ![c] = Idle]
  BY <1>1, EndIsRight
<1>4. known' = [d \in Callers |-> known'[d]] /\ \A d \in Callers \ {c} : known'[d] = known[d]
  BY InvariantIs
<1> QED
  BY <1>1, <1>2, <1>3, <1>4, StepIs

LEMMA DumpIsRemoved ==
  ASSUME RefsInvariant, NEW c \in Callers, RemoveFile(c)
  PROVE  RefsInvariant'
<1>1. /\ dump' = 0 /\ UNCHANGED <<backend, hist, file, known>>
      /\ call[c].pc \in {"readRm", "targetRm"}
  BY DEF RemoveFile
<1>2. \/ End(c)
      \/ Set(c, [pc |-> IF call[c].pc = "readRm" THEN "got" ELSE "aim"])
  BY <1>1 DEF RemoveFile
<1>3. CASE End(c)
  BY <1>1, <1>3, EndStep
<1>4. CASE Set(c, [pc |-> IF call[c].pc = "readRm" THEN "got" ELSE "aim"])
  <2> DEFINE q == IF call[c].pc = "readRm" THEN "got" ELSE "aim"
             r == [pc |-> q]
  <2>1. Set(c, r)
    BY <1>4
  <2>2. DOMAIN r = {"pc"} /\ r.pc = q
    OBVIOUS
  <2> HIDE DEF r
  <2>3. /\ DOMAIN call'[c] = Fields
        /\ call'[c].op = call[c].op /\ call'[c].pc = q
        /\ call'[c].tree = call[c].tree /\ call'[c].names = call[c].names
        /\ call'[c].id = call[c].id
        /\ call'[c].left = call[c].left /\ call'[c].began = call[c].began
    BY <2>1, <2>2, SetFields
  <2>4. RefType(c) /\ RefAt(c) /\ FreshAt(c) /\ backend \in {"linux", "android"}
    BY CallIs
  <2>5. RefType(c)' /\ FreshAt(c)'
    BY <1>1, <2>3, <2>4 DEF RefType, FreshAt
  <2>6. backend = "android" /\ ReadWhole(c)
    BY <1>1, <2>4 DEF RefAt
  <2>7. ReadWhole(c)'
    BY <1>1, <2>3, <2>6 DEF ReadWhole
  <2>8. \A ns : Found(c, ns)' <=> Found(c, ns)
    BY <2>3 DEF Found
  <2>9. RefAt(c)'
    BY <1>1, <2>3, <2>4, <2>6, <2>7, <2>8 DEF RefAt
  <2> QED
    BY <1>1, <2>1, <2>5, <2>9, ReadStep DEF Right
<1> QED
  BY <1>2, <1>3, <1>4

LEMMA NothingIsRead ==
  ASSUME RefsInvariant, NEW c \in Callers, ReadFails(c)
  PROVE  RefsInvariant'
<1>1. Reads(c) /\ UNCHANGED <<backend, hist, file, dump, known>>
  BY DEF ReadFails
<1>2. End(c) \/ (call[c].pc = "target" /\ Set(c, [pc |-> "aim", tree |-> NoTree]))
  BY DEF ReadFails, Reads
<1>3. CASE End(c)
  BY <1>1, <1>3, EndStep
<1>4. CASE call[c].pc = "target" /\ Set(c, [pc |-> "aim", tree |-> NoTree])
  <2> DEFINE r == [pc |-> "aim", tree |-> NoTree]
  <2>1. Set(c, r)
    BY <1>4
  <2>2. DOMAIN r = {"pc", "tree"} /\ r.pc = "aim" /\ r.tree = NoTree
    OBVIOUS
  <2> HIDE DEF r
  <2>3. /\ DOMAIN call'[c] = Fields
        /\ call'[c].op = call[c].op /\ call'[c].pc = "aim"
        /\ call'[c].tree = NoTree /\ call'[c].names = call[c].names
        /\ call'[c].id = call[c].id
        /\ call'[c].left = call[c].left /\ call'[c].began = call[c].began
    BY <2>1, <2>2, SetFields
  <2>4. RefType(c) /\ RefAt(c) /\ Len(hist) \in Nat
    BY CallIs
  <2>5. RefType(c)' /\ FreshAt(c)'
    BY <1>1, <2>3, <2>4, NothingRead DEF RefType, FreshAt
  <2>6. ReadWhole(c)'
    BY <2>3 DEF ReadWhole
  <2>7. \A ns : Found(c, ns)' <=> Found(c, ns)
    BY <2>3 DEF Found
  <2>8. RefAt(c)'
    BY <1>1, <1>4, <2>3, <2>4, <2>6, <2>7, NothingRead DEF RefAt
  <2> QED
    BY <1>1, <2>1, <2>5, <2>8, ReadStep DEF Right
<1> QED
  BY <1>2, <1>3, <1>4

-----------------------------------------------------------------------------
(***************************************************************************)
(* Calls store, look for an element and act.                               *)
(***************************************************************************)
LEMMA FileIsOpened ==
  ASSUME RefsInvariant, NEW c \in Callers, OpenFile(c)
  PROVE  RefsInvariant'
<1> DEFINE r == [pc |-> "write"]
<1>1. /\ Set(c, r) /\ call[c].pc = "got" /\ call[c].op \in {"look", "diff"}
      /\ file' = [NoFile EXCEPT !.state = "torn"]
      /\ UNCHANGED <<backend, hist, dump, known>>
  BY DEF OpenFile
<1>2. DOMAIN r = {"pc"} /\ r.pc = "write"
  OBVIOUS
<1> HIDE DEF r
<1>3. /\ DOMAIN call'[c] = Fields
      /\ call'[c].op = call[c].op /\ call'[c].pc = "write"
      /\ call'[c].tree = call[c].tree /\ call'[c].left = call[c].left
      /\ call'[c].began = call[c].began
  BY <1>1, <1>2, SetFields
<1>4. RefType(c) /\ RefAt(c) /\ FreshAt(c) /\ Len(hist) \in Nat
  BY CallIs
<1>5. Right(c)'
  BY <1>1, <1>3, <1>4 DEF Right, RefType, RefAt, FreshAt
<1>6. Around
  BY <1>1, InvariantIs DEF Around
<1>7. FileRight'
  BY <1>1, <1>4, NothingRead DEF NoFile, FileRight, FileAt
<1>8. PICK x : call' = [call EXCEPT ![c] = x]
  BY <1>1, SetFields
<1>9. known' = [d \in Callers |-> known'[d]] /\ \A d \in Callers \ {c} : known'[d] = known[d]
  BY <1>1, InvariantIs
<1> QED
  BY <1>5, <1>6, <1>7, <1>8, <1>9, StepIs

LEMMA FileIsWritten ==
  ASSUME RefsInvariant, NEW c \in Callers, WriteFile(c)
  PROVE  RefsInvariant'
<1> DEFINE t == call[c].tree
           shown == IF call[c].op = "diff" THEN t.nodes ELSE Pruned(t.nodes)
<1>1. /\ End(c) /\ UNCHANGED <<backend, hist, dump>>
      /\ file' = [state |-> "whole", nodes |-> shown, at |-> t.at]
      /\ known' = [known EXCEPT ![c] = [at |-> t.at, nodes |-> shown]]
  BY DEF WriteFile
<1>2. RefType(c) /\ RefAt(c) /\ Len(hist) \in Nat
  BY CallIs
<1>3. Around
  BY <1>1, InvariantIs DEF Around
<1>4. shown \subseteq t.nodes
  BY DEF Pruned
<1>6. OneEach(t.nodes) /\ t.at \in 0 .. Len(hist)
  BY <1>2 DEF RefType, RefAt
<1> HIDE DEF t, shown
<1>7. /\ file'.state = "whole" /\ file'.nodes = shown /\ file'.at = t.at
  BY <1>1
<1>8. FileRight'
  BY <1>1, <1>4, <1>6, <1>7 DEF FileRight, FileAt, OneEach
<1>9. /\ known'[c].at = t.at
       /\ known' = [d \in Callers |-> known'[d]]
       /\ \A d \in Callers \ {c} : known'[d] = known[d]
  BY <1>1, InvariantIs
<1>10. call'[c] = Idle /\ call' = [call EXCEPT ![c] = Idle]
  BY <1>1, InvariantIs DEF End
<1>11. Right(c)'
  BY <1>1, <1>3, <1>6, <1>9, <1>10, IdleIsRight
<1> QED
  BY <1>3, <1>8, <1>9, <1>10, <1>11, StepIs

LEMMA FirstIsOne ==
  ASSUME NEW nodes, OneEach(nodes), nodes # {}
  PROVE  FirstNode(nodes) \in nodes
<1> DEFINE ids == {n.id : n \in nodes}
<1>1. ids \subseteq Nat /\ ids # {}
  BY DEF OneEach
<1>2. PICK i \in ids : \A j \in ids : ~(<<j, i>> \in OpToRel(<, Nat))
  BY <1>1, NatLessThanWellFounded, WFMin
<1>3. \A j \in ids : ~(j < i)
  BY <1>1, <1>2 DEF OpToRel
<1>4. PICK n \in nodes : n.id = i
  OBVIOUS
<1>5. \A m \in nodes : n.id <= m.id
  BY <1>1, <1>3, <1>4
<1> QED
  BY <1>5 DEF FirstNode

LEMMA OneIsPicked ==
  ASSUME RefsInvariant, NEW c \in Callers, Pick(c)
  PROVE  RefsInvariant'
<1> DEFINE i == FirstNode(Matching(c)).id
           q == IF backend = "linux" THEN "resolve" ELSE "target"
           r == [id |-> i, pc |-> q]
<1>1. /\ Set(c, r) /\ call[c].pc = "got" /\ call[c].op \in {"do", "menu"}
      /\ Matching(c) # {} /\ UNCHANGED <<backend, hist, file, dump, known>>
  BY DEF Pick
<1>2. DOMAIN r = {"id", "pc"} /\ r.id = i /\ r.pc = q
  OBVIOUS
<1>3. /\ RefType(c) /\ RefAt(c) /\ FreshAt(c) /\ Len(hist) \in Nat
      /\ backend \in {"linux", "android"}
  BY CallIs
<1>5. FirstNode(Matching(c)) \in call[c].tree.nodes
      /\ FirstNode(Matching(c)).label = Head(call[c].names)
  <2>1. OneEach(Matching(c))
    BY <1>3 DEF RefAt, OneEach, Matching
  <2>2. FirstNode(Matching(c)) \in Matching(c)
    BY <1>1, <2>1, FirstIsOne
  <2> QED
    BY <2>2 DEF Matching
<1> HIDE DEF i, r
<1>6. /\ DOMAIN call'[c] = Fields
      /\ call'[c].op = call[c].op /\ call'[c].pc = q /\ call'[c].id = i
      /\ call'[c].tree = call[c].tree /\ call'[c].names = call[c].names
      /\ call'[c].left = call[c].left /\ call'[c].began = call[c].began
  BY <1>1, <1>2, SetFields
<1>7. RefType(c)' /\ FreshAt(c)'
  BY <1>1, <1>3, <1>6 DEF RefType, FreshAt
<1>8. Found(c, call[c].tree.nodes)'
  BY <1>5, <1>6 DEF Found, i
<1>9. backend = "android" =>
        \E k \in call[c].began .. Len(hist) : Found(c, TreeOf(hist[k], Whole))'
  <2>1. SUFFICES ASSUME backend = "android"
                 PROVE  \E k \in call[c].began .. Len(hist) : Found(c, TreeOf(hist[k], Whole))'
    OBVIOUS
  <2>2. ReadWhole(c)
    BY <1>1, <1>3, <2>1 DEF RefAt
  <2>3. call[c].tree # NoTree
    BY <1>5, NothingRead
  <2> QED
    BY <1>1, <1>6, <1>8, <2>2, <2>3 DEF ReadWhole, Found
<1>11. RefAt(c)'
  BY <1>1, <1>3, <1>6, <1>8, <1>9 DEF RefAt
<1> QED
  BY <1>1, <1>7, <1>11, ReadStep DEF Right

LEMMA NoneIsPicked ==
  ASSUME RefsInvariant, NEW c \in Callers, PickNone(c)
  PROVE  RefsInvariant'
<1>1. /\ call[c].pc = "got" /\ call[c].op \in {"do", "menu"}
      /\ UNCHANGED <<backend, hist, file, dump, known>>
  BY DEF PickNone
<1>2. \/ End(c)
      \/ call[c].op = "do" /\ Set(c, [pc |-> "read"])
      \/ /\ call[c].op = "menu" /\ call[c].left > 0
         /\ Set(c, [pc |-> "read", left |-> call[c].left - 1])
  BY DEF PickNone
<1>3. CASE End(c)
  BY <1>1, <1>3, EndStep
<1>4. ASSUME NEW r, Set(c, r), "pc" \in DOMAIN r, DOMAIN r \subseteq {"pc", "left"}, r.pc = "read",
             call[c].op = "menu" => call[c].left > 0
      PROVE  RefsInvariant'
  <2>1. /\ DOMAIN call'[c] = Fields
        /\ call'[c].op = call[c].op /\ call'[c].pc = "read"
        /\ call'[c].tree = call[c].tree /\ call'[c].names = call[c].names
        /\ call'[c].id = call[c].id /\ call'[c].began = call[c].began
    BY <1>4, SetFields
  <2>2. RefType(c) /\ RefAt(c) /\ FreshAt(c)
    BY CallIs
  <2>3. RefType(c)' /\ FreshAt(c)'
    BY <1>1, <2>1, <2>2 DEF RefType, FreshAt
  <2>4. RefAt(c)'
    BY <1>1, <1>4, <2>1, <2>2 DEF RefAt
  <2> QED
    BY <1>1, <1>4, <2>3, <2>4, ReadStep DEF Right
<1>5. CASE call[c].op = "do" /\ Set(c, [pc |-> "read"])
  <2> DEFINE r == [pc |-> "read"]
  <2>1. Set(c, r) /\ DOMAIN r = {"pc"} /\ r.pc = "read"
    BY <1>5
  <2> HIDE DEF r
  <2> QED
    BY <1>4, <1>5, <2>1
<1>6. CASE /\ call[c].op = "menu" /\ call[c].left > 0
           /\ Set(c, [pc |-> "read", left |-> call[c].left - 1])
  <2> DEFINE r == [pc |-> "read", left |-> call[c].left - 1]
  <2>1. Set(c, r) /\ DOMAIN r = {"pc", "left"} /\ r.pc = "read"
    BY <1>6
  <2> HIDE DEF r
  <2> QED
    BY <1>4, <1>6, <2>1
<1> QED
  BY <1>2, <1>3, <1>5, <1>6

\* After an action a call is over, or menu reads the tree again.
LEMMA OnwardIs ==
  ASSUME RefsInvariant, NEW c \in Callers, Onward(c), call[c].pc \in {"resolve", "aim"},
         UNCHANGED <<backend, hist, file, dump, known>>
  PROVE  RefsInvariant'
<1> DEFINE r == [pc |-> "read", names |-> Tail(call[c].names),
                 left |-> MaxRereads - 1]
<1>1. End(c) \/ (call[c].op = "menu" /\ Set(c, r))
  BY DEF Onward
<1>2. DOMAIN r = {"pc", "names", "left"} /\ r.pc = "read"
  OBVIOUS
<1> HIDE DEF r
<1>3. CASE End(c)
  BY <1>3, EndStep
<1>4. CASE call[c].op = "menu" /\ Set(c, r)
  <2>1. /\ DOMAIN call'[c] = Fields
        /\ call'[c].op = "menu" /\ call'[c].pc = "read"
        /\ call'[c].tree = call[c].tree /\ call'[c].began = call[c].began
    BY <1>2, <1>4, SetFields
  <2>2. RefType(c) /\ RefAt(c) /\ backend \in {"linux", "android"}
    BY CallIs
  <2>3. RefType(c)' /\ FreshAt(c)'
    BY <2>1, <2>2 DEF RefType, FreshAt
  <2>4. RefAt(c)'
    BY <1>4, <2>1, <2>2, NothingRead DEF RefAt
  <2> QED
    BY <1>4, <2>3, <2>4, ReadStep DEF Right
<1> QED
  BY <1>1, <1>3, <1>4

LEMMA ScreenIsRedrawn ==
  ASSUME RefsInvariant, NEW s \in Screens, Redraw(s)
  PROVE  RefsInvariant'
<1>1. /\ hist' = Append(hist, s) /\ hist \in Seq(Screens) /\ Len(hist) \in Nat
      /\ UNCHANGED <<backend, file, dump, call, known>>
  BY InvariantIs DEF Redraw
<1>2. /\ hist' \in Seq(Screens) /\ Len(hist') = Len(hist) + 1 /\ hist' # <<>>
      /\ \A k \in 1 .. Len(hist) : hist'[k] = hist[k]
  BY <1>1
<1>3. Around
  BY <1>1, <1>2 DEF Around
<1>4. \A c \in Callers : Right(c)'
  BY <1>1, <1>3, OthersKept
<1>5. FileRight'
  BY <1>1, <1>3, FileKept
<1>6. /\ call' = [d \in Callers |-> call'[d]] /\ known' = [d \in Callers |-> known'[d]]
      /\ dump' \in 0 .. Len(hist') /\ backend' \in {"linux", "android"}
  BY <1>1, <1>2, InvariantIs
<1> QED
  BY <1>2, <1>4, <1>5, <1>6
  DEF FileRight, RefsInvariant, RefsTypeOK, RefType, FreshAt, DumpIsFresh, Right

-----------------------------------------------------------------------------
(***************************************************************************)
(* The invariant.                                                          *)
(***************************************************************************)
LEMMA RefsAtInit ==
  RefsInit => RefsInvariant
<1> SUFFICES ASSUME RefsInit PROVE RefsInvariant
  OBVIOUS
<1>1. PICK s \in Screens : hist = <<s>>
  BY DEF RefsInit
<1>2. hist \in Seq(Screens) /\ hist # <<>> /\ Len(hist) = 1
  BY <1>1
<1>3. /\ call = [c \in Callers |-> call[c]] /\ known = [c \in Callers |-> known[c]]
      /\ \A c \in Callers : call[c] = Idle /\ known[c] = NoTree
      /\ file = NoFile /\ dump = 0 /\ backend \in {"linux", "android"}
  BY DEF RefsInit
<1>4. /\ DOMAIN Idle = Fields
      /\ Idle.op = "none" /\ Idle.pc = "idle" /\ Idle.began = 0
      /\ Idle.tree = NoTree /\ Idle.left = 0
  BY DEF Idle, Fields
<1>5. /\ NoFile.state = "none" /\ NoFile.nodes = {} /\ NoFile.at = 0
  BY DEF NoFile
<1>6. \A c \in Callers : Right(c)
  BY <1>2, <1>3, <1>4, NothingRead DEF Right, RefType, RefAt, FreshAt, OneEach
<1>7. FileAt
  BY <1>3, <1>5 DEF FileAt
<1> QED
  BY <1>2, <1>3, <1>5, <1>6, <1>7, InvariantIs

LEMMA RefsIsKept ==
  RefsInvariant /\ [RefsNext]_refsVars => RefsInvariant'
<1> SUFFICES ASSUME RefsInvariant, [RefsNext]_refsVars PROVE RefsInvariant'
  OBVIOUS
<1>1. CASE UNCHANGED refsVars
  <2>1. Around
    BY <1>1, InvariantIs DEF refsVars, Around
  <2>2. \A c \in Callers : Right(c)'
    BY <1>1, <2>1, OthersKept DEF refsVars
  <2>3. FileRight'
    BY <1>1, <2>1, FileKept DEF refsVars
  <2>4. /\ call' = [d \in Callers |-> call'[d]] /\ known' = [d \in Callers |-> known'[d]]
        /\ dump' \in 0 .. Len(hist') /\ backend' \in {"linux", "android"}
        /\ hist' \in Seq(Screens) /\ hist' # <<>>
    BY <1>1, InvariantIs DEF refsVars
  <2> QED
    BY <2>2, <2>3, <2>4
    DEF FileRight, RefsInvariant, RefsTypeOK, RefType, FreshAt, DumpIsFresh, Right
<1>2. ASSUME NEW s \in Screens, Redraw(s) PROVE RefsInvariant'
  BY <1>2, ScreenIsRedrawn
<1>3. ASSUME NEW c \in Callers, StartCall(c) PROVE RefsInvariant'
  BY <1>3, LookBegins, DiffBegins, ActBegins, DoBegins, MenuBegins DEF StartCall
<1>4. ASSUME NEW c \in Callers, Read(c) PROVE RefsInvariant'
  BY <1>4, WalkIsRead, PipeIsRead, DumpIsWritten, DumpIsRead, DumpIsRemoved, NothingIsRead
  DEF Read
<1>5. ASSUME NEW c \in Callers, Work(c) PROVE RefsInvariant'
  <2>1. CASE OpenFile(c) \/ WriteFile(c) \/ Pick(c) \/ PickNone(c)
    BY <2>1, FileIsOpened, FileIsWritten, OneIsPicked, NoneIsPicked
  <2>2. ASSUME NEW f, ActWorker(c, f) PROVE RefsInvariant'
    BY <2>2, OnwardIs DEF ActWorker
  <2>3. CASE WorkerFails(c)
    BY <2>3, EndStep DEF WorkerFails
  <2>4. CASE Tap(c)
    BY <2>4, OnwardIs DEF Tap
  <2> QED
    BY <1>5, <2>1, <2>2, <2>3, <2>4 DEF Work
<1>6. ASSUME NEW c \in Callers, Killed(c) PROVE RefsInvariant'
  BY <1>6, EndStep DEF Killed
<1> QED
  BY <1>1, <1>2, <1>3, <1>4, <1>5, <1>6 DEF RefsNext

LEMMA RefsInvariantHolds == RefsSpec => []RefsInvariant
<1> QED
  BY RefsAtInit, RefsIsKept, PTL DEF RefsSpec

\* Calls, what they know, the stored file and the dump keep their types; no tree is
\* from a screen that has not been shown.
THEOREM RefsTypeCorrect == RefsSpec => []RefsTypeOK
<1>1. RefsInvariant => RefsTypeOK
  BY DEF RefsInvariant
<1> QED
  BY <1>1, RefsInvariantHolds, PTL

\* Every tree that a call read itself was read since the call began, also
\* from the file on the device that every command writes and removes.
THEOREM TreesAreFresh == RefsSpec => []DumpIsFresh
<1>1. RefsInvariant => DumpIsFresh
  BY DEF RefsInvariant
<1> QED
  BY <1>1, RefsInvariantHolds, PTL

-----------------------------------------------------------------------------
(***************************************************************************)
(* Who acts, and on what.                                                  *)
(***************************************************************************)
\* Only a worker's action or a tap of the call itself is a deed of the call.
LEMMA WhoActs ==
  ASSUME RefsNext, NEW c \in Callers, NEW op, Acts(c, op)
  PROVE  Tap(c) \/ \E f \in Faults : ActWorker(c, f)
<1>1. deed' # NoDeed
  BY DEF Acts, NoDeed
<1>2. ASSUME NEW s \in Screens, Redraw(s) PROVE FALSE
  BY <1>1, <1>2 DEF Redraw
<1>3. ASSUME NEW d \in Callers, StartCall(d) PROVE FALSE
  BY <1>1, <1>3 DEF StartCall, StartLook, StartDiff, StartAct, StartDo, StartMenu, Begin
<1>4. ASSUME NEW d \in Callers, Read(d) PROVE FALSE
  BY <1>1, <1>4 DEF Read, ReadWalk, ReadPipe, DumpFile, CatFile, RemoveFile, ReadFails
<1>5. ASSUME NEW d \in Callers, Killed(d) PROVE FALSE
  BY <1>1, <1>5 DEF Killed
<1>6. PICK d \in Callers : Work(d)
  BY <1>2, <1>3, <1>4, <1>5 DEF RefsNext
<1>7. Tap(d) \/ \E f \in Faults : ActWorker(d, f)
  BY <1>1, <1>6 DEF Work, OpenFile, WriteFile, Pick, PickNone, WorkerFails
<1>8. deed'.by = {d}
  BY <1>1, <1>7 DEF Tap, ActWorker, Deed
<1> QED
  BY <1>7, <1>8 DEF Acts

\* What a worker's action hits and where a tap goes.
LEMMA WorkerHits ==
  ASSUME NEW c \in Callers, NEW op, Acts(c, op), NEW f, ActWorker(c, f)
  PROVE  LET p == Scan(screen, f, call[c].id)
         IN  /\ call[c].pc = "resolve" /\ call[c].op = op /\ deed'.id = call[c].id
             /\ deed'.path = p /\ deed'.label = {screen[p]} /\ deed'.fault = f
<1>1. deed' # NoDeed
  BY DEF Acts, NoDeed
<1> QED
  BY <1>1 DEF ActWorker, Deed, Acts

LEMMA TapHits ==
  ASSUME NEW c \in Callers, NEW op, Acts(c, op), Tap(c)
  PROVE  LET p == ResolveFresh(call[c].tree.nodes, call[c].id)
         IN  /\ call[c].pc = "aim" /\ call[c].op = op /\ deed'.id = call[c].id
             /\ p \in DOMAIN screen
             /\ deed'.path = p /\ deed'.label = {screen[p]}
<1>1. deed' # NoDeed
  BY DEF Acts, NoDeed
<1> QED
  BY <1>1 DEF Tap, Deed, Acts

\* The scan of a screen that can be read meets the elements that the walk met.
LEMMA ScanFinds ==
  ASSUME NEW s \in Screens, NEW n \in TreeOf(s, Whole)
  PROVE  /\ Scan(s, Whole, n.id) = n.path
         /\ n.path \in DOMAIN s /\ n.label = s[n.path]
         /\ n.path \notin Whole.mute /\ ~Cut(Whole.gone, n.path)
<1>1. Whole.gone = {} /\ Whole.mute = {} /\ Whole.gone \cup Whole.mute = {}
  BY DEF Whole
<1>2. \A p : ~Cut({}, p)
  BY DEF Cut
<1>3. {p \in DOMAIN s : ~Cut(Whole.gone \cup Whole.mute, p)} = DOMAIN s
      /\ {p \in DOMAIN s : ~Cut(Whole.gone, p)} = DOMAIN s
  BY <1>1, <1>2
<1>4. TreeOf(s, Whole) = {[path |-> p, id |-> NumberIn(DOMAIN s, p), label |-> s[p]] : p \in DOMAIN s}
  BY <1>3 DEF TreeOf
<1>5. PICK p \in DOMAIN s : n.path = p /\ n.id = NumberIn(DOMAIN s, p) /\ n.label = s[p]
  BY <1>4
<1> DEFINE hits == {q \in DOMAIN s : NumberIn(DOMAIN s, q) = n.id}
<1>6. hits = {p}
  <2>1. IsFiniteSet(DOMAIN s) /\ DOMAIN s \subseteq Seq(Nat)
    BY ScreensAssumption
  <2> QED
    BY <1>5, <2>1, NumbersDiffer
<1>7. Scan(s, Whole, n.id) = IF hits = {} THEN NoPath ELSE CHOOSE q \in hits : TRUE
  <2> DEFINE walked == {q \in DOMAIN s : ~Cut(Whole.gone, q)}
             met == {q \in walked : NumberIn(walked, q) = n.id}
  <2>1. Scan(s, Whole, n.id) = IF met = {} THEN NoPath ELSE CHOOSE q \in met : TRUE
    BY Zenon DEF Scan
  <2>2. walked = DOMAIN s
    BY <1>3
  <2> HIDE DEF walked
  <2>3. met = hits
    BY <2>2
  <2> QED
    BY <2>1, <2>3
<1>8. (CHOOSE q \in hits : TRUE) = p
  BY <1>6
<1> HIDE DEF hits
<1> QED
  BY <1>1, <1>2, <1>5, <1>6, <1>7, <1>8

LEMMA FreshIsHit ==
  ASSUME NEW nodes, OneEach(nodes), NEW n \in nodes
  PROVE  ResolveFresh(nodes, n.id) = n.path
<1> DEFINE same == {m \in nodes : m.id = n.id}
<1>1. same = {n}
  BY DEF OneEach
<1>2. OneEach(same) /\ same # {}
  BY <1>1 DEF OneEach
<1>3. FirstNode(same) = n
  BY <1>1, <1>2, FirstIsOne
<1>4. same # {} => ResolveFresh(nodes, n.id) = FirstNode(same).path
  BY DEF ResolveFresh
<1> QED
  BY <1>2, <1>3, <1>4

\* An element that kept its place, with nothing before it come or gone, has
\* the number it was shown under.
LEMMA NumberIsKept ==
  ASSUME NEW s, NEW t, NEW n \in TreeOf(s, Whole),
         n.path \in DOMAIN t, Preceding(t, n.path) = Preceding(s, n.path)
  PROVE  \E m \in TreeOf(t, Whole) : m.id = n.id /\ m.path = n.path
<1>1. \A x : TreeOf(x, Whole)
               = {[path |-> p, id |-> NumberIn(DOMAIN x, p), label |-> x[p]] : p \in DOMAIN x}
  <2>1. Whole.gone \cup Whole.mute = {}
    BY DEF Whole
  <2>2. \A x : {p \in DOMAIN x : ~Cut(Whole.gone \cup Whole.mute, p)} = DOMAIN x
    BY <2>1 DEF Cut
  <2> QED
    BY <2>2 DEF TreeOf
<1>2. PICK p \in DOMAIN s : n = [path |-> p, id |-> NumberIn(DOMAIN s, p), label |-> s[p]]
  BY <1>1
<1>3. n.path = p /\ n.id = NumberIn(DOMAIN s, p)
  BY <1>2
<1>4. {q \in DOMAIN s : q = p \/ Before(q, p)} = {q \in DOMAIN t : q = p \/ Before(q, p)}
  BY <1>3 DEF Preceding
<1>5. NumberIn(DOMAIN t, p) = n.id
  BY <1>3, <1>4 DEF NumberIn
<1>6. [path |-> p, id |-> NumberIn(DOMAIN t, p), label |-> t[p]] \in TreeOf(t, Whole)
  BY <1>1, <1>3
<1> QED
  BY <1>3, <1>5, <1>6

\* An id that the caller read leads to the element it was shown for, on either
\* backend, as long as the element keeps its place and nothing before it comes
\* or goes: the search of an action numbers as the walk of inspect did.
THEOREM SeenElementIsHit == RefsSpec => SeenIsHit
<1> DEFINE Holds(c, n) ==
       /\ Acts(c, "act") /\ deed'.id = n.id
       /\ n \in TreeOf(hist[known[c].at], Whole) /\ deed'.fault = Whole
       /\ InPlace(known[c].at, n.path)
       => deed'.path = n.path
<1>1. ASSUME RefsInvariant, [RefsNext]_refsVars, NEW c \in Callers, NEW n \in known[c].nodes
      PROVE  Holds(c, n)
  <2>1. SUFFICES ASSUME Acts(c, "act"), deed'.id = n.id,
                        n \in TreeOf(hist[known[c].at], Whole), deed'.fault = Whole,
                        InPlace(known[c].at, n.path)
                 PROVE  deed'.path = n.path
    OBVIOUS
  <2>2. RefsNext
    BY <1>1, <2>1 DEF Acts, refsVars
  <2>3. /\ RefType(c) /\ RefAt(c) /\ screen = hist[Len(hist)] /\ screen \in Screens
        /\ backend \in {"linux", "android"} /\ Len(hist) \in Nat
    BY <1>1, CallIs, ScreenIs
  <2>4. ASSUME NEW k \in known[c].at .. Len(hist)
        PROVE  \E m \in TreeOf(hist[k], Whole) : m.id = n.id /\ m.path = n.path
    <3>1. /\ n.path \in DOMAIN hist[k]
          /\ Preceding(hist[k], n.path) = Preceding(hist[known[c].at], n.path)
      BY <2>1 DEF InPlace
    <3> QED
      BY <2>1, <3>1, NumberIsKept
  <2>5. CASE \E f \in Faults : ActWorker(c, f)
    <3>1. PICK f \in Faults : ActWorker(c, f)
      BY <2>5
    <3>2. n.id = call[c].id /\ deed'.path = Scan(screen, Whole, call[c].id)
      BY <2>1, <3>1, WorkerHits
    <3>3. PICK m \in TreeOf(screen, Whole) : m.id = n.id /\ m.path = n.path
      BY <2>3, <2>4 DEF RefType
    <3> QED
      BY <2>3, <3>2, <3>3, ScanFinds
  <2>6. CASE Tap(c)
    <3>1. /\ call[c].pc = "aim" /\ n.id = call[c].id /\ deed'.path \in DOMAIN screen
          /\ deed'.path = ResolveFresh(call[c].tree.nodes, n.id)
      BY <2>1, <2>6, TapHits
    <3>2. ReadWhole(c) /\ known[c].at <= call[c].began
      BY <2>3, <3>1 DEF RefAt
    <3>3. call[c].tree # NoTree
      <4>1. SUFFICES ASSUME call[c].tree = NoTree PROVE FALSE
        OBVIOUS
      <4>2. call[c].tree.nodes = {}
        BY <4>1, NothingRead
      <4>3. deed'.path = NoPath
        BY <3>1, <4>2 DEF ResolveFresh
      <4> QED
        BY <2>3, <3>1, <4>3, ScreensAssumption DEF NoPath
    <3>4. /\ call[c].tree.at \in known[c].at .. Len(hist)
          /\ call[c].tree.nodes = TreeOf(hist[call[c].tree.at], Whole)
      BY <2>3, <3>2, <3>3 DEF ReadWhole, RefType
    <3>5. PICK m \in call[c].tree.nodes : m.id = n.id /\ m.path = n.path
      BY <2>4, <3>4
    <3>6. OneEach(call[c].tree.nodes)
      BY <2>3 DEF RefAt
    <3> QED
      BY <3>1, <3>5, <3>6, FreshIsHit
  <2> QED
    BY <2>1, <2>2, <2>5, <2>6, WhoActs
<1>2. RefsInvariant /\ [RefsNext]_refsVars
        => [\A c \in Callers : \A n \in known[c].nodes : Holds(c, n)]_refsVars
  BY <1>1
<1> QED
  BY <1>2, RefsInvariantHolds, PTL DEF RefsSpec, SeenIsHit

\* do and menu act on an element that carries the label they looked for, on
\* a screen that stayed as it was found and can be read.
THEOREM NamedElementIsHit == RefsSpec => NamedIsHit
<1> DEFINE Holds(c) ==
       /\ Acts(c, "do") \/ Acts(c, "menu")
       /\ IF backend = "linux"
          THEN call[c].tree.at = Len(hist) /\ AllRead(call[c].tree.nodes)
          ELSE call[c].began = Len(hist)
       /\ deed'.fault = Whole
       => deed'.label = {Head(call[c].names)}
<1>1. ASSUME RefsInvariant, [RefsNext]_refsVars, NEW c \in Callers
      PROVE  Holds(c)
  <2>1. SUFFICES ASSUME NEW op \in {"do", "menu"}, Acts(c, op),
                        IF backend = "linux"
                        THEN call[c].tree.at = Len(hist) /\ AllRead(call[c].tree.nodes)
                        ELSE call[c].began = Len(hist),
                        deed'.fault = Whole
                 PROVE  deed'.label = {Head(call[c].names)}
    OBVIOUS
  <2>2. RefsNext
    BY <1>1, <2>1 DEF Acts, refsVars
  <2>3. /\ RefType(c) /\ RefAt(c) /\ screen = hist[Len(hist)] /\ screen \in Screens
        /\ backend \in {"linux", "android"} /\ Len(hist) \in Nat
        /\ OneEach(TreeOf(screen, Whole))
    BY <1>1, CallIs, ScreenIs
  <2>4. CASE \E f \in Faults : ActWorker(c, f)
    <3>1. PICK f \in Faults : ActWorker(c, f)
      BY <2>4
    <3>2. /\ call[c].pc = "resolve" /\ call[c].op = op
          /\ deed'.label = {screen[Scan(screen, Whole, call[c].id)]}
      BY <2>1, <3>1, WorkerHits
    <3>3. PICK m \in call[c].tree.nodes :
            m.id = call[c].id /\ m.label = Head(call[c].names)
      BY <2>3, <3>2 DEF RefAt, Found
    <3>4. m \in TreeOf(screen, Whole)
      BY <2>1, <2>3, <3>2, <3>3 DEF AllRead, RefAt
    <3>5. Scan(screen, Whole, m.id) = m.path /\ m.label = screen[m.path]
      BY <2>3, <3>4, ScanFinds
    <3> QED
      BY <3>2, <3>3, <3>5
  <2>5. CASE Tap(c)
    <3>1. /\ call[c].pc = "aim" /\ call[c].op = op /\ deed'.path \in DOMAIN screen
          /\ deed'.path = ResolveFresh(call[c].tree.nodes, call[c].id)
          /\ deed'.label = {screen[deed'.path]}
      BY <2>1, <2>5, TapHits
    <3>2. /\ backend = "android" /\ op = "do" /\ call[c].began = Len(hist)
          /\ ReadWhole(c) /\ Found(c, TreeOf(screen, Whole))
      BY <2>1, <2>3, <3>1 DEF RefAt, RefType
    <3>3. call[c].tree # NoTree
      <4>1. SUFFICES ASSUME call[c].tree = NoTree PROVE FALSE
        OBVIOUS
      <4>2. call[c].tree.nodes = {}
        BY <4>1, NothingRead
      <4>3. deed'.path = NoPath
        BY <3>1, <4>2 DEF ResolveFresh
      <4> QED
        BY <2>3, <3>1, <4>3, ScreensAssumption DEF NoPath
    <3>4. call[c].tree.nodes = TreeOf(screen, Whole)
      BY <2>3, <3>2, <3>3 DEF ReadWhole
    <3>5. PICK m \in TreeOf(screen, Whole) :
            m.id = call[c].id /\ m.label = Head(call[c].names)
      BY <3>2 DEF Found
    <3>6. deed'.path = m.path /\ m.label = screen[m.path]
      BY <2>3, <3>1, <3>4, <3>5, FreshIsHit, ScanFinds
    <3> QED
      BY <3>1, <3>5, <3>6
  <2> QED
    BY <2>1, <2>2, <2>4, <2>5, WhoActs
<1>2. RefsInvariant /\ [RefsNext]_refsVars => [\A c \in Callers : Holds(c)]_refsVars
  BY <1>1
<1> QED
  BY <1>2, RefsInvariantHolds, PTL DEF RefsSpec, NamedIsHit
=============================================================================
