-------------------------- MODULE WorkerConnection --------------------------
(***************************************************************************)
(* The persistent AT-SPI worker and the adapters that use it.  A call of   *)
(* an adapter sends a request to the worker over a pipe and reads the      *)
(* answer from another; when anything goes wrong it starts a one-shot      *)
(* worker for the same request.  The worker may be slow, raise or die; a   *)
(* caller that waited too long leaves its answer in the pipe.              *)
(*                                                                         *)
(* The worker is stopped by the process that started it, between calls.    *)
(***************************************************************************)
EXTENDS Naturals, Sequences, FiniteSets, Functions

CONSTANTS Calls,    \* calls of the adapters, each in a thread of its own
          Windows,  \* those that list windows, whose failures are answers
          None      \* no call, no request

ASSUME CallsAssumption == Windows \subseteq Calls

VARIABLES
  worker,   \* its process: "none", "starting", "running", "dead"
  attached, \* the adapters have been given the connection
  counter,  \* _req_counter
  stdin,    \* requests in the pipe to the worker
  busy,     \* the request it is working on, or None
  stdout,   \* responses in the pipe from the worker
  buffer,   \* responses that the buffered reader has taken from the pipe
  pc,       \* of each call
  req,      \* the request id of each call; 0 before it is sent
  answer,   \* what each call returned
  runs,     \* history: how often each call was executed, and by whom
  late,     \* history: the calls that stopped waiting for the worker
  failed    \* history: the calls the worker raised at

process == <<worker, attached>>
pipes == <<counter, stdin, busy, stdout, buffer>>
calls == <<pc, req, answer>>
history == <<runs, late, failed>>
vars == <<process, pipes, calls, history>>

Requests == [id : Nat \ {0}, call : Calls]
Responses == [id : Nat \ {0}, call : Calls, ok : BOOLEAN]
Answers == {"none", "oneshot", "error", "empty"}

ASSUME NamesAssumption == None \notin Calls \cup Requests /\ Calls \cap Answers = {}

TypeOK ==
  /\ worker \in {"none", "starting", "running", "dead"}
  /\ attached \in BOOLEAN
  /\ counter \in Nat
  /\ stdin \in Seq(Requests)
  /\ busy \in Requests \cup {None}
  /\ stdout \in Seq(Responses) /\ buffer \in Seq(Responses)
  /\ pc \in [Calls -> {"idle", "locking", "waiting", "oneshot", "done"}]
  /\ req \in [Calls -> Nat]
  /\ answer \in [Calls -> Answers \cup Calls]
  /\ runs \in [Calls -> [worker : Nat, oneshot : Nat]]
  /\ late \in SUBSET Calls /\ failed \in SUBSET Calls

Init ==
  /\ worker = "none" /\ attached = FALSE
  /\ counter = 0 /\ stdin = <<>> /\ busy = None /\ stdout = <<>> /\ buffer = <<>>
  /\ pc = [c \in Calls |-> "idle"]
  /\ req = [c \in Calls |-> 0]
  /\ answer = [c \in Calls |-> "none"]
  /\ runs = [c \in Calls |-> [worker |-> 0, oneshot |-> 0]]
  /\ late = {} /\ failed = {}

(***************************************************************************)
(* The connection's life.                                                  *)
(***************************************************************************)
Start ==
  /\ worker = "none" /\ ~attached
  /\ worker' = "starting"
  /\ UNCHANGED <<attached, pipes, calls, history>>

\* The handshake has come, and is the expected one.
Handshake ==
  /\ worker = "starting"
  /\ worker' = "running" /\ attached' = TRUE
  /\ UNCHANGED <<pipes, calls, history>>

\* No handshake in time, or not the expected one: the process is killed.
NoHandshake ==
  /\ worker = "starting"
  /\ worker' = "dead"
  /\ UNCHANGED <<attached, pipes, calls, history>>

InFlight == {c \in Calls : pc[c] \notin {"idle", "done"}}

Pending == (IF busy = None THEN <<>> ELSE <<busy>>) \o stdin

\* The worker finishes what it was sent and exits, or is killed on the way.
Stop ==
  /\ attached /\ InFlight = {}
  /\ attached' = FALSE /\ worker' = "dead"
  /\ \E n \in 0..Len(Pending) :
       LET done == {Pending[i].call : i \in 1..n}
       IN runs' = [c \in Calls |-> IF c \in done THEN [runs[c] EXCEPT !.worker = @ + 1]
                                                ELSE runs[c]]
  /\ stdin' = <<>> /\ busy' = None
  /\ UNCHANGED <<counter, stdout, buffer, calls, late, failed>>

(***************************************************************************)
(* The worker.                                                             *)
(***************************************************************************)
Take ==
  /\ worker = "running" /\ busy = None /\ stdin # <<>>
  /\ busy' = Head(stdin) /\ stdin' = Tail(stdin)
  /\ UNCHANGED <<process, counter, stdout, buffer, calls, history>>

Execute(c) == runs' = [runs EXCEPT ![c].worker = @ + 1]

\* The request is executed; what raises may have had its effect before.
Respond ==
  /\ worker = "running" /\ busy # None
  /\ \/ /\ Execute(busy.call)
        /\ stdout' = Append(stdout, [id |-> busy.id, call |-> busy.call, ok |-> TRUE])
        /\ UNCHANGED failed
     \/ /\ Execute(busy.call) \/ UNCHANGED runs
        /\ stdout' = Append(stdout, [id |-> busy.id, call |-> busy.call, ok |-> FALSE])
        /\ failed' = failed \cup {busy.call}
  /\ busy' = None
  /\ UNCHANGED <<process, counter, stdin, buffer, calls, late>>

\* What it was working on may have had its effect.
Die ==
  /\ worker = "running"
  /\ worker' = "dead"
  /\ \/ busy # None /\ Execute(busy.call)
     \/ UNCHANGED runs
  /\ busy' = None /\ stdin' = <<>>
  /\ UNCHANGED <<attached, counter, stdout, buffer, calls, late, failed>>

(***************************************************************************)
(* A call of an adapter.                                                   *)
(***************************************************************************)
Goto(c, where) == pc' = [pc EXCEPT ![c] = where]

Return(c, what) == Goto(c, "done") /\ answer' = [answer EXCEPT ![c] = what]

IsAlive == worker = "running"

Enter(c) ==
  /\ pc[c] = "idle"
  /\ Goto(c, IF attached /\ IsAlive THEN "locking" ELSE "oneshot")
  /\ UNCHANGED <<process, pipes, req, answer, history>>

LockIsFree == \A c \in Calls : pc[c] # "waiting"

\* A worker that has died since, or dies now, raises.
Send(c) ==
  /\ pc[c] = "locking" /\ LockIsFree
  /\ \/ /\ IsAlive
        /\ counter' = counter + 1
        /\ req' = [req EXCEPT ![c] = counter']
        /\ stdin' = Append(stdin, [id |-> counter', call |-> c])
        /\ Goto(c, "waiting")
     \/ /\ ~IsAlive
        /\ Goto(c, "oneshot")
        /\ UNCHANGED <<counter, req, stdin>>
  /\ UNCHANGED <<process, busy, stdout, buffer, answer, history>>

\* select() looks at the pipe; end of file makes it readable as well.
Readable == stdout # <<>> \/ worker = "dead"

\* readline() reads the pipe only when the buffer holds no line.
Lines == IF buffer # <<>> THEN buffer ELSE stdout

ReadLine ==
  /\ buffer' = Tail(Lines)
  /\ stdout' = IF buffer # <<>> THEN stdout ELSE <<>>

\* Mutation: the request id of the response is not compared.
BugAccepts(c, response) == response.ok

Accepts(c, response) == response.id = req[c] /\ response.ok

Receive(c) ==
  /\ pc[c] = "waiting" /\ Readable /\ Lines # <<>>
  /\ ReadLine
  /\ IF Accepts(c, Head(Lines)) THEN Return(c, Head(Lines).call)
                                ELSE Goto(c, "oneshot") /\ UNCHANGED answer
  /\ UNCHANGED <<process, counter, stdin, busy, req, history>>

\* The worker is dead and all it wrote has been read.
ReceiveNothing(c) ==
  /\ pc[c] = "waiting" /\ Readable /\ Lines = <<>>
  /\ Goto(c, "oneshot")
  /\ UNCHANGED <<process, pipes, req, answer, history>>

\* Mutation: the one-shot worker is not started after a timeout.
BugTimeOut(c) ==
  /\ pc[c] = "waiting" /\ ~Readable
  /\ late' = late \cup {c}
  /\ UNCHANGED <<process, pipes, calls, runs, failed>>

\* The worker is slow, or its response is in the buffer already.
TimeOut(c) ==
  /\ pc[c] = "waiting" /\ ~Readable
  /\ late' = late \cup {c}
  /\ Goto(c, "oneshot")
  /\ UNCHANGED <<process, pipes, req, answer, runs, failed>>

Failure(c) == IF c \in Windows THEN "empty" ELSE "error"

\* Mutation: a one-shot worker that fails is started once more.
BugOneShot(c) ==
  /\ pc[c] = "oneshot"
  /\ \/ /\ runs' = [runs EXCEPT ![c].oneshot = @ + 1]
        /\ Return(c, "oneshot")
     \/ /\ runs' = [runs EXCEPT ![c].oneshot = @ + 2]
        /\ Return(c, Failure(c))
  /\ UNCHANGED <<process, pipes, req, late, failed>>

\* A one-shot worker is run to its end, or killed after 30 seconds.
OneShot(c) ==
  /\ pc[c] = "oneshot"
  /\ \/ /\ runs' = [runs EXCEPT ![c].oneshot = @ + 1]
        /\ Return(c, "oneshot")
     \/ /\ runs' = [runs EXCEPT ![c].oneshot = @ + 1] \/ UNCHANGED runs
        /\ Return(c, Failure(c))
  /\ UNCHANGED <<process, pipes, req, late, failed>>

Call(c) ==
  \/ Enter(c) \/ Send(c) \/ Receive(c) \/ ReceiveNothing(c) \/ TimeOut(c) \/ OneShot(c)

Worker == Take \/ Respond \/ Die

Next == Start \/ Handshake \/ NoHandshake \/ Stop \/ Worker \/ (\E c \in Calls : Call(c))

\* Threads run; a wait for the worker ends, by its answer or by its timeout.
Fairness == \A c \in Calls : WF_vars(pc[c] # "idle" /\ Call(c))

Spec == Init /\ [][Next]_vars /\ Fairness

-----------------------------------------------------------------------------
\* A call that returns what the worker answered returns the answer to its own
\* request, which was executed exactly once: whatever older answers were left
\* in the pipe or the buffer, and whoever else is calling.
AnswerIsOwn ==
  \A c \in Calls : answer[c] \in Calls =>
    answer[c] = c /\ runs[c] = [worker |-> 1, oneshot |-> 0]

\* A call is never executed more than twice; it is executed twice only if a
\* call has stopped waiting for the worker, or the worker has raised at this
\* one or is dead.  An answer too late costs its caller a second execution,
\* and so it costs every later caller of the connection.
TwiceOnlyAfterLoss ==
  \A c \in Calls :
    /\ runs[c].worker <= 1 /\ runs[c].oneshot <= 1
    /\ runs[c].worker + runs[c].oneshot = 2 =>
         late # {} \/ c \in failed \/ worker = "dead"

\* Until a call stops waiting there is at most one response to read, that of
\* the call that waits: no answer of another call is ever taken for it.
InStep ==
  late = {} /\ worker # "dead" =>
    /\ Len(stdin) + Len(stdout) + Len(buffer) + (IF busy = None THEN 0 ELSE 1) <= 1
    /\ \A c \in Calls : pc[c] = "waiting" => req[c] = counter

\* Nothing is executed for a call that has returned, unless it had stopped
\* waiting, or another had before it.
NoGhosts ==
  [][\A c \in Calls : pc[c] = "done" /\ runs'[c] # runs[c] => late # {}]_vars

\* Every call returns.
CallsReturn == \A c \in Calls : pc[c] # "idle" ~> pc[c] = "done"

(***************************************************************************)
(* The inductive invariant behind AnswerIsOwn and TwiceOnlyAfterLoss: what *)
(* is in the pipes belongs to the call whose request number it bears, and  *)
(* was executed if it is an answer, and was not if it is a request.        *)
(***************************************************************************)

Asked == Range(stdin) \cup (IF busy = None THEN {} ELSE {busy})
Said == Range(stdout) \cup Range(buffer)

AskedOnce ==
  /\ \A i, j \in DOMAIN stdin : stdin[i].call = stdin[j].call => i = j
  /\ busy # None => \A i \in DOMAIN stdin : stdin[i].call # busy.call

RequestsAreDue == \A m \in Asked : req[m.call] = m.id /\ runs[m.call].worker = 0

ResponsesAreTrue ==
  \A m \in Said :
    /\ req[m.call] = m.id
    /\ IF m.ok THEN runs[m.call].worker = 1 ELSE m.call \in failed

NumbersAreUnique ==
  \A c, d \in Calls :
    /\ req[c] <= counter
    /\ req[c] = req[d] /\ req[c] # 0 => c = d
    /\ pc[c] = "waiting" /\ pc[d] = "waiting" => c = d

CallAt(c) ==
  /\ pc[c] \in {"idle", "locking"} => req[c] = 0
  /\ pc[c] = "waiting" => req[c] # 0
  /\ req[c] = 0 => runs[c].worker = 0
  /\ pc[c] # "done" => runs[c].oneshot = 0 /\ answer[c] = "none"
  /\ runs[c].worker <= 1 /\ runs[c].oneshot <= 1

\* Nobody has stopped waiting, the worker lives, and it has not raised at c.
Undisturbed == late = {} /\ worker # "dead"

InTurn ==
  Undisturbed =>
    /\ Len(stdin) + Len(stdout) + Len(buffer) + (IF busy = None THEN 0 ELSE 1) <= 1
    /\ \A m \in Asked \cup Said : pc[m.call] = "waiting"
    /\ \A c \in Calls \ failed : pc[c] = "oneshot" => runs[c].worker = 0

WorkerInvariant ==
  /\ TypeOK /\ AskedOnce /\ RequestsAreDue /\ ResponsesAreTrue /\ NumbersAreUnique
  /\ \A c \in Calls : CallAt(c)
  /\ InTurn /\ AnswerIsOwn /\ TwiceOnlyAfterLoss
=============================================================================
