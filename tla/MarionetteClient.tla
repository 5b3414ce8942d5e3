-------------------------- MODULE MarionetteClient --------------------------
(***************************************************************************)
(* The Marionette adapter: one connection per port, kept between calls, to *)
(* whatever Firefox listens there.  Firefox may be slow, and may be        *)
(* stopped and another started on the same port.  A call that fails on a   *)
(* connection it found in the cache is made once more on a fresh one.      *)
(*                                                                         *)
(* One port, and one call at a time: the dispatcher holds the lock of the  *)
(* session (see McpDispatch for what a cancelled call does to that).       *)
(***************************************************************************)
EXTENDS Naturals, Sequences, FiniteSets, Functions

CONSTANTS Calls,      \* the calls, each made once
          Shots,      \* those that find an element, then capture it
          MaxStarts   \* bound: how often a Firefox is started on the port

\* What a call returns or raises other than an answer.
Outcomes == {"none", "raised", "desync", "refused"}

ASSUME MarionetteAssumption ==
  Calls \cap Outcomes = {} /\ Shots \subseteq Calls /\ MaxStarts \in Nat

VARIABLES
  up,      \* a Firefox listens on the port
  starts,  \* how many have
  todo,    \* what it has yet to do: hellos and commands of all connections
  link,    \* number of the last connection
  cached,  \* _conns holds it
  ready,   \* _ready holds it
  open,    \* its other end is open
  inbox,   \* frames that have arrived on it
  msgId,   \* _msg_id
  pc,      \* of each call: which frame it waits for
  req,     \* msg_id of its last command; 0 if it met a closed socket
  reused,  \* from_cache
  again,   \* it is on its second attempt
  answer,  \* what it returned, or how it raised
  runs,    \* history: how often its last command was executed
  calm,    \* history: Firefox was up since it began, and answered in time
  clean,   \* history: no reply was outstanding when it began
  owed     \* history: the connection owes the reply to a command given up

firefox == <<up, starts, todo>>
connection == <<link, cached, ready, open, inbox>>
calls == <<msgId, pc, req, reused, again, answer>>
history == <<runs, calm, clean, owed>>
vars == <<firefox, connection, calls, history>>

Waits == {"hello", "session", "find", "work"}
Tasks == [what : Waits, id : Nat, call : Calls, link : Nat]
Frames == [what : Waits, id : Nat, call : Calls, ok : BOOLEAN]

TypeOK ==
  /\ up \in BOOLEAN /\ starts \in 0..MaxStarts /\ todo \in Seq(Tasks)
  /\ link \in Nat /\ cached \in BOOLEAN /\ ready \in BOOLEAN /\ open \in BOOLEAN
  /\ inbox \in Seq(Frames)
  /\ msgId \in Nat
  /\ pc \in [Calls -> {"idle", "done"} \cup Waits]
  /\ req \in [Calls -> Nat]
  /\ reused \in [Calls -> BOOLEAN] /\ again \in [Calls -> BOOLEAN]
  /\ answer \in [Calls -> Outcomes \cup Calls]
  /\ runs \in [Calls -> Nat]
  /\ calm \in [Calls -> BOOLEAN] /\ clean \in [Calls -> BOOLEAN] /\ owed \in BOOLEAN

Init ==
  /\ up = FALSE /\ starts = 0 /\ todo = <<>>
  /\ link = 0 /\ cached = FALSE /\ ready = FALSE /\ open = FALSE /\ inbox = <<>>
  /\ msgId = 0
  /\ pc = [c \in Calls |-> "idle"]
  /\ req = [c \in Calls |-> 0]
  /\ reused = [c \in Calls |-> FALSE] /\ again = [c \in Calls |-> FALSE]
  /\ answer = [c \in Calls |-> "none"]
  /\ runs = [c \in Calls |-> 0]
  /\ calm = [c \in Calls |-> TRUE] /\ clean = [c \in Calls |-> TRUE] /\ owed = FALSE

(***************************************************************************)
(* Firefox.                                                                *)
(***************************************************************************)
FirefoxStarts ==
  /\ ~up /\ starts < MaxStarts
  /\ up' = TRUE /\ starts' = starts + 1
  /\ UNCHANGED <<todo, connection, calls, history>>

Execute(task) ==
  runs' = IF task.what = "work" THEN [runs EXCEPT ![task.call] = @ + 1] ELSE runs

\* What it was doing may have had its effect; frames already sent arrive.
FirefoxStops ==
  /\ up
  /\ up' = FALSE /\ open' = FALSE /\ todo' = <<>>
  /\ \/ todo # <<>> /\ Execute(Head(todo))
     \/ UNCHANGED runs
  /\ calm' = [c \in Calls |-> calm[c] /\ pc[c] \in {"idle", "done"}]
  /\ UNCHANGED <<starts, link, cached, ready, inbox, calls, clean, owed>>

\* A reply to a connection that was closed meanwhile goes nowhere.
Serve ==
  /\ todo # <<>>
  /\ LET task == Head(todo) IN
       /\ Execute(task)
       /\ IF task.link = link
            THEN \E ok \in BOOLEAN :
                   inbox' = Append(inbox, [what |-> task.what, id |-> task.id,
                                           call |-> task.call, ok |-> ok])
            ELSE UNCHANGED inbox
  /\ todo' = Tail(todo)
  /\ UNCHANGED <<up, starts, link, cached, ready, open, calls, calm, clean, owed>>

(***************************************************************************)
(* What the adapter does between two waits.                                *)
(***************************************************************************)
Return(c, what) ==
  /\ pc' = [pc EXCEPT ![c] = "done"]
  /\ answer' = [answer EXCEPT ![c] = what]

Await(c, what) ==
  /\ pc' = [pc EXCEPT ![c] = what]
  /\ UNCHANGED answer

FirstCommand(c) == IF c \in Shots THEN "find" ELSE "work"

\* Firefox greets whoever connects; what was left on the old socket is gone.
Connect(c) ==
  /\ link' = link + 1
  /\ cached' = TRUE /\ ready' = FALSE /\ open' = TRUE /\ inbox' = <<>>
  /\ todo' = Append(todo, [what |-> "hello", id |-> 0, call |-> c, link |-> link'])
  /\ Await(c, "hello")
  /\ owed' = FALSE
  /\ UNCHANGED <<msgId, req>>

\* A command is numbered and sent.  A closed socket may take it all the same.
Command(c, what) ==
  /\ msgId' = msgId + 1
  /\ req' = [req EXCEPT ![c] = IF open THEN msgId' ELSE 0]
  /\ todo' = IF open
               THEN Append(todo, [what |-> what, id |-> msgId', call |-> c, link |-> link])
               ELSE todo
  /\ Await(c, what)

Drop == cached' = FALSE /\ ready' = FALSE /\ inbox' = <<>> /\ owed' = FALSE

\* Mutation: a fresh connection that fails is retried like a cached one.
BugMayRetry(c) == ~again[c]

MayRetry(c) == reused[c] /\ ~again[c]

\* Mutation: the connection is evicted, and the call not made again.
BugFail(c) ==
  /\ Return(c, "raised")
  /\ IF MayRetry(c) THEN Drop ELSE UNCHANGED <<cached, ready, inbox, owed>>
  /\ UNCHANGED <<todo, link, open, msgId, req, again>>

\* OSError or EOFError: evict, connect, and start over; once, and only if the
\* connection came from the cache.  One that did not stays in the cache.
Fail(c) ==
  \/ /\ ~MayRetry(c)
     /\ Return(c, "raised")
     /\ UNCHANGED <<todo, connection, msgId, req, again, owed>>
  \/ /\ MayRetry(c) /\ up
     /\ again' = [again EXCEPT ![c] = TRUE]
     /\ Connect(c)
  \/ /\ MayRetry(c) /\ ~up
     /\ Drop
     /\ Return(c, "raised")
     /\ UNCHANGED <<todo, link, open, msgId, req, again>>

(***************************************************************************)
(* A call.                                                                 *)
(***************************************************************************)
Alone(c) == \A d \in Calls \ {c} : pc[d] \in {"idle", "done"}

\* The session is unknown, of the Android backend, or has no Marionette port.
Refuse(c) ==
  /\ pc[c] = "idle"
  /\ Return(c, "refused")
  /\ UNCHANGED <<firefox, connection, msgId, req, reused, again, history>>

\* A connection that is cached but not ready has its greeting still to come.
BeginReused(c) ==
  /\ pc[c] = "idle" /\ Alone(c) /\ cached
  /\ reused' = [reused EXCEPT ![c] = TRUE]
  /\ IF ready THEN Command(c, FirstCommand(c))
              ELSE Await(c, "hello") /\ UNCHANGED <<todo, msgId, req>>
  /\ calm' = [calm EXCEPT ![c] = up]
  /\ clean' = [clean EXCEPT ![c] = ~owed]
  /\ UNCHANGED <<up, starts, connection, again, runs, owed>>

BeginFresh(c) ==
  /\ pc[c] = "idle" /\ Alone(c) /\ ~cached
  /\ \/ up /\ Connect(c)
     \/ /\ ~up
        /\ Return(c, "raised")
        /\ UNCHANGED <<todo, connection, msgId, req, owed>>
  /\ calm' = [calm EXCEPT ![c] = up]
  /\ UNCHANGED <<up, starts, reused, again, runs, clean>>

\* Mutation: the id of the response is not compared.
BugCorrelates(c, frame) == frame.what # "hello"

Correlates(c, frame) == frame.what # "hello" /\ frame.id = req[c]

\* The greeting is not looked at.
ReceiveHello(c) ==
  /\ pc[c] = "hello" /\ inbox # <<>>
  /\ inbox' = Tail(inbox)
  /\ Command(c, "session")
  /\ UNCHANGED <<up, starts, link, cached, ready, open, reused, again, history>>

\* RuntimeError, which is no error of the connection: it stays in the cache.
ReceiveOther(c) ==
  /\ pc[c] \in {"session", "find", "work"} /\ inbox # <<>>
  /\ ~Correlates(c, Head(inbox))
  /\ inbox' = Tail(inbox)
  /\ Return(c, "desync")
  /\ UNCHANGED <<firefox, link, cached, ready, open, msgId, req, reused, again, history>>

\* An error in the reply to NewSession is not looked at.
ReceiveSession(c) ==
  /\ pc[c] = "session" /\ inbox # <<>> /\ Correlates(c, Head(inbox))
  /\ inbox' = Tail(inbox)
  /\ ready' = TRUE
  /\ Command(c, FirstCommand(c))
  /\ UNCHANGED <<up, starts, link, cached, open, reused, again, history>>

ReceiveFind(c) ==
  /\ pc[c] = "find" /\ inbox # <<>> /\ Correlates(c, Head(inbox))
  /\ inbox' = Tail(inbox)
  /\ \/ /\ Head(inbox).ok
        /\ Command(c, "work")
     \/ /\ ~Head(inbox).ok
        /\ Return(c, Head(inbox).call)
        /\ UNCHANGED <<todo, msgId, req>>
  /\ UNCHANGED <<up, starts, link, cached, ready, open, reused, again, history>>

\* A result, or the error of the script: both are answers.
ReceiveResult(c) ==
  /\ pc[c] = "work" /\ inbox # <<>> /\ Correlates(c, Head(inbox))
  /\ inbox' = Tail(inbox)
  /\ Return(c, Head(inbox).call)
  /\ UNCHANGED <<firefox, link, cached, ready, open, msgId, req, reused, again, history>>

\* The send raises, or the socket is closed and all that had arrived is read.
Lost(c) ==
  /\ pc[c] \in Waits /\ ~open
  /\ inbox = <<>> \/ (pc[c] # "hello" /\ req[c] = 0)
  /\ Fail(c)
  /\ UNCHANGED <<up, starts, reused, runs, calm, clean>>

\* Thirty seconds have passed: TimeoutError is an OSError as well.
TimeOut(c) ==
  /\ pc[c] \in Waits /\ open /\ inbox = <<>>
  /\ calm' = [calm EXCEPT ![c] = FALSE]
  /\ IF MayRetry(c)
       THEN Fail(c)
       ELSE /\ Return(c, "raised")
            /\ owed' = (owed \/ ready)
            /\ UNCHANGED <<todo, connection, msgId, req, again>>
  /\ UNCHANGED <<up, starts, reused, runs, clean>>

Receive(c) ==
  ReceiveHello(c) \/ ReceiveOther(c) \/ ReceiveSession(c) \/ ReceiveFind(c) \/ ReceiveResult(c)

Call(c) ==
  Refuse(c) \/ BeginReused(c) \/ BeginFresh(c) \/ Receive(c) \/ Lost(c) \/ TimeOut(c)

Next == FirefoxStarts \/ FirefoxStops \/ Serve \/ (\E c \in Calls : Call(c))

\* A thread that is in a call goes on; a wait ends by a frame or its timeout.
Fairness == \A c \in Calls : WF_vars(pc[c] # "idle" /\ Call(c))

Spec == Init /\ [][Next]_vars /\ Fairness
-----------------------------------------------------------------------------
\* A call that returns an answer returns Firefox's answer to its own command,
\* whatever replies to earlier commands are still on the way; the script of an
\* answered call was executed.
AnswerIsOwn ==
  \A c \in Calls : answer[c] \in Calls => answer[c] = c /\ (c \in Shots \/ runs[c] > 0)

\* A script is executed at most twice, and twice only for a call that found its
\* connection in the cache and lost it, or lost patience with it, after Firefox
\* had got the script: a call on a fresh connection "propagates without retry".
TwiceOnlyWhenReused ==
  \A c \in Calls : runs[c] <= 2 /\ (runs[c] = 2 => reused[c] /\ again[c])

\* "Self-healing": a call during which Firefox is up and answers in time is
\* answered, whichever Firefox the connection it finds in the cache led to and
\* however far its handshake had come; unless that connection still owes the
\* reply to a command that was given up.
SelfHeals ==
  \A c \in Calls : pc[c] = "done" /\ calm[c] /\ clean[c] => answer[c] \in Calls \cup {"refused"}

\* The same without the exception: one timeout on a fresh connection, and the
\* calls after it all find the reply to another's command.  False of the code.
AlwaysHeals ==
  \A c \in Calls : pc[c] = "done" /\ calm[c] => answer[c] \in Calls \cup {"refused"}

\* Every call returns or raises, however Firefox comes and goes.
CallsEnd == \A c \in Calls : pc[c] # "idle" ~> pc[c] = "done"

(***************************************************************************)
(* The inductive invariant behind AnswerIsOwn and TwiceOnlyWhenReused: a   *)
(* task or frame with the number of the command a call waits for is of     *)
(* that call and that command; and what a call has had executed, with what *)
(* Firefox has yet to execute for it, is within what its attempts allow.   *)
(***************************************************************************)

InCommand(c) == pc[c] \in {"session", "find", "work"}

Belongs(m) ==
  m.what # "hello" =>
    /\ m.id # 0 /\ m.id <= msgId
    /\ \A c \in Calls : InCommand(c) /\ req[c] = m.id => m.call = c /\ m.what = pc[c]

FramesAreTrue ==
  \A m \in Range(inbox) : Belongs(m) /\ (m.what = "work" => runs[m.call] > 0)

TasksAreTrue ==
  /\ \A m \in Range(todo) : Belongs(m)
  /\ \A i, j \in DOMAIN todo :
       /\ todo[i].what # "hello" /\ todo[j].what # "hello"
       /\ todo[i].id = todo[j].id
       => i = j

\* The numbers of the scripts and captures Firefox has yet to execute for c.
ToRun(c) == {m.id : m \in {n \in Range(todo) : n.what = "work" /\ n.call = c}}

Attempts(c) == (IF again[c] THEN 1 ELSE 0) + (IF pc[c] \in {"work", "done"} THEN 1 ELSE 0)

CallAt(c) ==
  /\ req[c] <= msgId
  /\ pc[c] = "find" => c \in Shots
  /\ pc[c] = "idle" => ~ again[c]
  /\ again[c] => reused[c]
  /\ IsFiniteSet(ToRun(c)) /\ runs[c] + Cardinality(ToRun(c)) <= Attempts(c)

MarionetteInvariant ==
  /\ TypeOK /\ FramesAreTrue /\ TasksAreTrue
  /\ \A c \in Calls : CallAt(c)
  /\ AnswerIsOwn

(***************************************************************************)
(* The inductive invariant behind SelfHeals: as long as no reply is owed,  *)
(* at most one frame is on its way or has arrived, none once a connection  *)
(* is ready and no call uses it, and it is the one a command waits for.    *)
(***************************************************************************)
Busy(c) == pc[c] \in Waits
Owes == \E i \in DOMAIN todo : todo[i].link = link

AtMostOneDue ==
  /\ Len(inbox) <= 1 /\ (inbox # <<>> => ~ Owes)
  /\ \A i, j \in DOMAIN todo : todo[i].link = link /\ todo[j].link = link => i = j

OnlyOwnDue(c) ==
  /\ \A m \in Range(inbox) : Correlates(c, m)
  /\ \A i \in DOMAIN todo : todo[i].link = link => Correlates(c, todo[i])

Accounted ==
  /\ \A i \in DOMAIN todo : todo[i].link <= link
  /\ ~ open => ~ Owes
  /\ ~ owed /\ cached =>
       /\ AtMostOneDue
       /\ ready /\ (\A c \in Calls : ~ Busy(c)) => inbox = <<>> /\ ~ Owes

HealsAt(c) ==
  /\ Busy(c) =>
       /\ cached /\ (ready <=> pc[c] \in {"find", "work"})
       /\ calm[c] => up /\ (open \/ MayRetry(c))
       /\ clean[c] => ~ owed
       /\ InCommand(c) /\ ~ owed => OnlyOwnDue(c)
  /\ pc[c] = "done" /\ calm[c] /\ clean[c] => answer[c] \in Calls \cup {"refused"}

HealInvariant ==
  /\ Accounted
  /\ \A c, d \in Calls : Busy(c) /\ Busy(d) => c = d
  /\ \A c \in Calls : HealsAt(c)
=============================================================================
