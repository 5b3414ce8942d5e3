---------------------------- MODULE SessionStore ----------------------------
(***************************************************************************)
(* The directory ~/.aieyes: one subdirectory per session with session.json *)
(* and operations.jsonl.  Every `aieyes` command is a process of its own   *)
(* that reads and writes these files without any lock, so the steps of     *)
(* concurrent commands interleave at every file system call.               *)
(***************************************************************************)
EXTENDS Naturals, FiniteSets, FiniteSetsExt

CONSTANTS NumSessions,  \* sessions 1..NumSessions, numbered in the order of
                        \* (started_at, session_id), the order the code compares by
          Android,      \* the sessions of the Android backend
          Existing,     \* the sessions that were started before the model begins
          Procs,        \* CLI processes, each runs one command
          Command,      \* [Procs -> Commands]
          Together,     \* the sets of processes that run together: a bound on what is
                        \* explored at once ({Procs}: all of them)
          Killable      \* the processes that may be killed at any step

Sessions == 1 .. NumSessions
Commands == {"start", "resize", "stop", "resolve", "prune"}

ASSUME SessionAssumption == NumSessions \in Nat /\ Android \subseteq Sessions
ASSUME ExistingAssumption == \E n \in 0 .. NumSessions : Existing = 1 .. n
ASSUME CommandAssumption == Command \in [Procs -> Commands]
ASSUME TogetherAssumption == Together \subseteq SUBSET Procs
ASSUME KillableAssumption == Killable \subseteq Procs

VARIABLES
  \* the host and the device
  stage,   \* "no", "starting", "up" (its start has returned) or "failed"
  live,    \* what runs: the recorded app_pid and xvfb_pid, the device's package
  \* the file system
  dir,     \* the session directory exists
  file,    \* its session.json: "none", "empty" (truncated), "saved" or "garbled"
  log,     \* its operations.jsonl exists
  aged,    \* which clocks are past the maximum age: "start" (started_at), "mtime"
  \* the commands
  pc,      \* what each process does next
  sid,     \* its session, 0 if it has none
  todo,    \* sessions that a loop over the store has still to visit
  found,   \* sessions that the loop has kept
  fd,      \* an open session.json that is still linked in its directory
  before   \* history: what the store was obliged to answer when the loop began

host == <<stage, live>>
store == <<dir, file, log, aged>>
locals == <<sid, todo, found, fd, before>>
vars == <<host, store, pc, locals>>

\* What a session's start brings up.  The recorded app_pid of an Android
\* session is the adb launcher on the host; the app itself is on the device.
Brings(s) == IF s \in Android THEN {"app_pid", "package"} ELSE {"app_pid", "xvfb_pid"}

Ended == {"done", "raised", "killed"}
Steps == {"mkdir", "open", "write", "resize", "pick", "load", "read", "judge", "stat", "remove",
          "rmdir", "scan", "probe", "resolved", "kill_app", "kill_xvfb", "log", "append"}

TypeOK ==
  /\ stage \in [Sessions -> {"no", "starting", "up", "failed"}]
  /\ live \in [Sessions -> SUBSET {"app_pid", "xvfb_pid", "package"}]
  /\ dir \in [Sessions -> BOOLEAN]
  /\ file \in [Sessions -> {"none", "empty", "saved", "garbled"}]
  /\ log \in [Sessions -> BOOLEAN]
  /\ aged \in [Sessions -> SUBSET {"start", "mtime"}]
  /\ pc \in [Procs -> {"idle"} \cup Steps \cup Ended]
  /\ sid \in [Procs -> 0 .. NumSessions]
  /\ todo \in [Procs -> SUBSET Sessions]
  /\ found \in [Procs -> SUBSET Sessions]
  /\ fd \in [Procs -> BOOLEAN]
  /\ before \in [Procs -> SUBSET Sessions]

Init ==
  /\ stage = [s \in Sessions |-> IF s \in Existing THEN "up" ELSE "no"]
  /\ live = [s \in Sessions |-> IF s \in Existing THEN Brings(s) ELSE {}]
  /\ dir = [s \in Sessions |-> s \in Existing]
  /\ file = [s \in Sessions |-> IF s \in Existing THEN "saved" ELSE "none"]
  /\ log = [s \in Sessions |-> s \in Existing]
  /\ aged = [s \in Sessions |-> {}]
  /\ pc = [p \in Procs |-> "idle"]
  /\ sid = [p \in Procs |-> 0]
  /\ todo = [p \in Procs |-> {}]
  /\ found = [p \in Procs |-> {}]
  /\ fd = [p \in Procs |-> FALSE]
  /\ before = [p \in Procs |-> {}]

Goto(p, step) == pc' = [pc EXCEPT ![p] = step]

\* An idle process is asked to run its command.
Runs(p, command) ==
  /\ pc[p] = "idle"
  /\ Command[p] = command
  /\ \E ps \in Together : p \in ps /\ \A q \in Procs \ ps : pc[q] = "idle"

\* is_session_active: prune calls it without the Android lifecycle port, the
\* other commands with it.
IsSessionActive(s, lifecycle) ==
  IF s \in Android /\ lifecycle
    THEN "package" \in live[s]
    ELSE /\ "app_pid" \in live[s]
         /\ s \in Android \/ "xvfb_pid" \in live[s]

\* A session the caller was told of, and that still runs.
Up(s) == stage[s] = "up" /\ IsSessionActive(s, TRUE)

\* A new entry in a directory renews its modification time.
Touched(s, new) == [aged EXCEPT ![s] = IF new THEN @ \ {"mtime"} ELSE @]

(***************************************************************************)
(* session start and session resize: they save session.json, in place and  *)
(* not atomically.                                                         *)
(***************************************************************************)
StartBegin(p) ==
  /\ Runs(p, "start")
  /\ \E s \in Sessions :
       /\ stage[s] = "no"
       /\ \A t \in Sessions : t < s => stage[t] # "no"
       /\ stage' = [stage EXCEPT ![s] = "starting"]
       /\ live' = [live EXCEPT ![s] = Brings(s)]
       /\ sid' = [sid EXCEPT ![p] = s]
  /\ Goto(p, "mkdir")
  /\ UNCHANGED <<store, todo, found, fd, before>>

\* Any error before the save is complete: the processes are released.
StartFails(p) ==
  /\ Command[p] = "start"
  /\ pc[p] \in {"mkdir", "open", "write"}
  /\ stage' = [stage EXCEPT ![sid[p]] = "failed"]
  /\ live' = [live EXCEPT ![sid[p]] = {}]
  /\ Goto(p, "raised")
  /\ UNCHANGED <<store, locals>>

ResizeLoad(p) ==
  /\ Runs(p, "resize")
  /\ \E s \in Sessions :
       /\ stage[s] # "no"
       /\ sid' = [sid EXCEPT ![p] = s]
       /\ Goto(p, IF file[s] = "saved" THEN "resize" ELSE "log")
  /\ UNCHANGED <<host, store, todo, found, fd, before>>

\* xrandr needs the X server; the command then sleeps before it saves.
ResizeDisplay(p) ==
  /\ pc[p] = "resize"
  /\ Goto(p, IF "xvfb_pid" \in live[sid[p]] THEN "mkdir" ELSE "log")
  /\ UNCHANGED <<host, store, locals>>

SaveMkdir(p) ==
  /\ pc[p] = "mkdir"
  /\ LET s == sid[p] IN
       /\ dir' = [dir EXCEPT ![s] = TRUE]
       /\ aged' = Touched(s, ~ dir[s])
  /\ Goto(p, "open")
  /\ UNCHANGED <<host, file, log, locals>>

\* O_TRUNC on an existing file, O_CREAT on a new one.
SaveOpen(p) ==
  /\ pc[p] = "open"
  /\ dir[sid[p]]
  /\ LET s == sid[p] IN
       /\ file' = [file EXCEPT ![s] = "empty"]
       /\ aged' = Touched(s, file[s] = "none")
  /\ fd' = [fd EXCEPT ![p] = TRUE]
  /\ Goto(p, "write")
  /\ UNCHANGED <<host, dir, log, sid, todo, found, before>>

\* The directory was removed since mkdir.
SaveOpenFails(p) ==
  /\ Command[p] = "resize"
  /\ pc[p] = "open"
  /\ ~ dir[sid[p]]
  /\ Goto(p, "log")
  /\ UNCHANGED <<host, store, locals>>

\* A write over another writer's longer text leaves that text's tail behind.
SaveWrite(p) ==
  /\ pc[p] = "write"
  /\ LET s == sid[p] IN
       /\ \E text \in IF file[s] = "empty" THEN {"saved"} ELSE {"saved", "garbled"} :
            file' = IF fd[p] THEN [file EXCEPT ![s] = text] ELSE file
       /\ stage' = IF Command[p] = "start" THEN [stage EXCEPT ![s] = "up"] ELSE stage
  /\ fd' = [fd EXCEPT ![p] = FALSE]
  /\ Goto(p, "log")
  /\ UNCHANGED <<live, dir, log, aged, sid, todo, found, before>>

(***************************************************************************)
(* The loops over all sessions: load every session.json, then probe what   *)
(* was loaded.  Loading asks whether the file exists, then reads it.       *)
(***************************************************************************)
ScanBegin(p) ==
  /\ Runs(p, "resolve") \/ Runs(p, "stop")
  /\ todo' = [todo EXCEPT ![p] = {s \in Sessions : dir[s]}]
  /\ before' = [before EXCEPT ![p] = {s \in Sessions : Up(s)}]
  /\ Goto(p, "scan")
  /\ UNCHANGED <<host, store, sid, found, fd>>

ScanLoad(p) ==
  /\ pc[p] = "scan"
  /\ \E s \in todo[p] :
       /\ todo' = [todo EXCEPT ![p] = @ \ {s}]
       /\ sid' = [sid EXCEPT ![p] = s]
       /\ Goto(p, IF file[s] = "none" THEN "scan" ELSE "read")
  /\ UNCHANGED <<host, store, found, fd, before>>

\* A file that does not parse is skipped, but one that is gone ends the loop.
ScanRead(p) ==
  /\ Command[p] # "prune"
  /\ pc[p] = "read"
  /\ LET s == sid[p] IN
       /\ found' = [found EXCEPT ![p] = IF file[s] = "saved" THEN @ \cup {s} ELSE @]
       /\ Goto(p, IF file[s] = "none" THEN "raised" ELSE "scan")
  /\ UNCHANGED <<host, store, sid, todo, fd, before>>

ScanLoaded(p) ==
  /\ pc[p] = "scan"
  /\ todo[p] = {}
  /\ todo' = [todo EXCEPT ![p] = found[p]]
  /\ found' = [found EXCEPT ![p] = {}]
  /\ Goto(p, "probe")
  /\ UNCHANGED <<host, store, sid, fd, before>>

ScanProbe(p) ==
  /\ pc[p] = "probe"
  /\ \E s \in todo[p] :
       /\ todo' = [todo EXCEPT ![p] = @ \ {s}]
       /\ found' = [found EXCEPT ![p] = IF IsSessionActive(s, TRUE) THEN @ \cup {s} ELSE @]
  /\ UNCHANGED <<host, store, pc, sid, fd, before>>

\* Mutation: the oldest active session is taken.
BugResolve(p) ==
  /\ Command[p] = "resolve"
  /\ pc[p] = "probe"
  /\ todo[p] = {}
  /\ sid' = [sid EXCEPT ![p] = IF found[p] = {} THEN 0 ELSE Min(found[p])]
  /\ Goto(p, IF found[p] = {} THEN "raised" ELSE "resolved")
  /\ UNCHANGED <<host, store, todo, found, fd, before>>

\* No --session given: the newest active session.
Resolve(p) ==
  /\ Command[p] = "resolve"
  /\ pc[p] = "probe"
  /\ todo[p] = {}
  /\ sid' = [sid EXCEPT ![p] = IF found[p] = {} THEN 0 ELSE Max(found[p])]
  /\ Goto(p, IF found[p] = {} THEN "raised" ELSE "resolved")
  /\ UNCHANGED <<host, store, todo, found, fd, before>>

\* The command itself (inspect, action, ...) leaves the store alone.
UseResolved(p) ==
  /\ pc[p] = "resolved"
  /\ Goto(p, "log")
  /\ UNCHANGED <<host, store, locals>>

\* Mutation: with several active sessions the newest is stopped.
BugStopSole(p) ==
  /\ Command[p] = "stop"
  /\ pc[p] = "probe"
  /\ todo[p] = {}
  /\ sid' = [sid EXCEPT ![p] = IF found[p] = {} THEN 0 ELSE Max(found[p])]
  /\ Goto(p, IF found[p] = {} THEN "raised" ELSE "kill_app")
  /\ UNCHANGED <<host, store, todo, found, fd, before>>

\* No --session given: the only active session, or an error.
StopSole(p) ==
  /\ Command[p] = "stop"
  /\ pc[p] = "probe"
  /\ todo[p] = {}
  /\ sid' = [sid EXCEPT ![p] = IF Cardinality(found[p]) = 1 THEN Max(found[p]) ELSE 0]
  /\ Goto(p, IF Cardinality(found[p]) = 1 THEN "kill_app" ELSE "raised")
  /\ UNCHANGED <<host, store, todo, found, fd, before>>

StopNamed(p) ==
  /\ Runs(p, "stop")
  /\ \E s \in Sessions :
       /\ stage[s] # "no"
       /\ sid' = [sid EXCEPT ![p] = s]
       /\ Goto(p, IF file[s] = "saved" THEN "kill_app" ELSE "log")
  /\ before' = [before EXCEPT ![p] = {}]
  /\ UNCHANGED <<host, store, todo, found, fd>>

KillApp(p) ==
  /\ pc[p] = "kill_app"
  /\ LET s == sid[p] IN
       /\ live' = [live EXCEPT ![s] = @ \ IF s \in Android THEN {"package"} ELSE {"app_pid"}]
       /\ Goto(p, IF s \in Android THEN "log" ELSE "kill_xvfb")
  /\ UNCHANGED <<stage, store, locals>>

KillXvfb(p) ==
  /\ pc[p] = "kill_xvfb"
  /\ live' = [live EXCEPT ![sid[p]] = @ \ {"xvfb_pid"}]
  /\ Goto(p, "log")
  /\ UNCHANGED <<stage, store, locals>>

(***************************************************************************)
(* session prune.                                                          *)
(***************************************************************************)
\* The sessions that this prune owes its caller to remove.
Stale(s) == dir[s] /\ file[s] = "saved" /\ "start" \in aged[s] /\ live[s] = {}

PruneBegin(p) ==
  /\ Runs(p, "prune")
  /\ todo' = [todo EXCEPT ![p] = {s \in Sessions : dir[s]}]
  /\ before' = [before EXCEPT ![p] = {s \in Sessions : Stale(s)}]
  /\ Goto(p, "pick")
  /\ UNCHANGED <<host, store, sid, found, fd>>

PrunePick(p) ==
  /\ pc[p] = "pick"
  /\ \E s \in todo[p] :
       /\ todo' = [todo EXCEPT ![p] = @ \ {s}]
       /\ sid' = [sid EXCEPT ![p] = s]
  /\ Goto(p, "load")
  /\ UNCHANGED <<host, store, found, fd, before>>

PruneEnd(p) ==
  /\ pc[p] = "pick"
  /\ todo[p] = {}
  /\ Goto(p, "done")
  /\ UNCHANGED <<host, store, locals>>

PruneLoad(p) ==
  /\ pc[p] = "load"
  /\ Goto(p, IF file[sid[p]] = "none" THEN "stat" ELSE "read")
  /\ UNCHANGED <<host, store, locals>>

\* A session.json that does not parse, or is gone by now, ends the whole prune.
PruneRead(p) ==
  /\ Command[p] = "prune"
  /\ pc[p] = "read"
  /\ Goto(p, IF file[sid[p]] = "saved" THEN "judge" ELSE "raised")
  /\ UNCHANGED <<host, store, locals>>

\* Mutation: the first active session ends the loop.
BugPruneStops(p) ==
  /\ pc[p] = "judge"
  /\ LET s == sid[p] IN
       Goto(p, CASE IsSessionActive(s, FALSE) -> "done"
                 [] "start" \in aged[s]       -> "remove"
                 [] OTHER                     -> "pick")
  /\ UNCHANGED <<host, store, locals>>

\* Mutation: the age alone decides.
BugPruneJudge(p) ==
  /\ pc[p] = "judge"
  /\ Goto(p, IF "start" \in aged[sid[p]] THEN "remove" ELSE "pick")
  /\ UNCHANGED <<host, store, locals>>

PruneJudge(p) ==
  /\ pc[p] = "judge"
  /\ LET s == sid[p] IN
       Goto(p, IF ~ IsSessionActive(s, FALSE) /\ "start" \in aged[s] THEN "remove" ELSE "pick")
  /\ UNCHANGED <<host, store, locals>>

PruneStat(p) ==
  /\ pc[p] = "stat"
  /\ LET s == sid[p] IN Goto(p, IF dir[s] /\ "mtime" \in aged[s] THEN "remove" ELSE "pick")
  /\ UNCHANGED <<host, store, locals>>

\* rmtree empties the directory, then removes it; the latter fails when
\* somebody has put a file there in between.
PruneRemove(p) ==
  /\ pc[p] = "remove"
  /\ LET s == sid[p] IN
       IF dir[s]
         THEN /\ file' = [file EXCEPT ![s] = "none"]
              /\ log' = [log EXCEPT ![s] = FALSE]
              /\ fd' = [q \in Procs |-> fd[q] /\ sid[q] # s]
              /\ Goto(p, "rmdir")
         ELSE /\ Goto(p, "pick")
              /\ UNCHANGED <<file, log, fd>>
  /\ UNCHANGED <<host, dir, aged, sid, todo, found, before>>

PruneRmdir(p) ==
  /\ pc[p] = "rmdir"
  /\ LET s == sid[p] IN
       IF dir[s] /\ file[s] = "none" /\ ~ log[s]
         THEN /\ dir' = [dir EXCEPT ![s] = FALSE]
              /\ Goto(p, "pick")
         ELSE /\ Goto(p, "raised")
              /\ UNCHANGED dir
  /\ UNCHANGED <<host, file, log, aged, locals>>

(***************************************************************************)
(* Every command on a session ends by appending to that session's log,     *)
(* making its directory if there is none.                                  *)
(***************************************************************************)
LogMkdir(p) ==
  /\ pc[p] = "log"
  /\ LET s == sid[p] IN
       /\ dir' = [dir EXCEPT ![s] = TRUE]
       /\ aged' = Touched(s, ~ dir[s])
  /\ Goto(p, "append")
  /\ UNCHANGED <<host, file, log, locals>>

LogAppend(p) ==
  /\ pc[p] = "append"
  /\ LET s == sid[p] IN
       IF dir[s]
         THEN /\ log' = [log EXCEPT ![s] = TRUE]
              /\ aged' = Touched(s, ~ log[s])
         ELSE UNCHANGED <<log, aged>>
  /\ Goto(p, "done")
  /\ UNCHANGED <<host, dir, file, locals>>

(***************************************************************************)
(* The environment.                                                        *)
(***************************************************************************)
Dies(s) ==
  /\ \E what \in live[s] : live' = [live EXCEPT ![s] = @ \ {what}]
  /\ UNCHANGED <<stage, store, pc, locals>>

\* The maximum age is hours, a command takes seconds: no command is in flight
\* while a session passes it.
Ages(s) ==
  /\ stage[s] # "no"
  /\ \A p \in Procs : pc[p] \in {"idle"} \cup Ended
  /\ aged' = [aged EXCEPT ![s] = {"start", "mtime"}]
  /\ UNCHANGED <<host, dir, file, log, pc, locals>>

Killed(p) ==
  /\ p \in Killable
  /\ pc[p] \in Steps
  /\ Goto(p, "killed")
  /\ fd' = [fd EXCEPT ![p] = FALSE]
  /\ UNCHANGED <<host, store, sid, todo, found, before>>

-----------------------------------------------------------------------------
Start(p) == StartBegin(p) \/ StartFails(p)
Resize(p) == ResizeLoad(p) \/ ResizeDisplay(p)
Save(p) == SaveMkdir(p) \/ SaveOpen(p) \/ SaveOpenFails(p) \/ SaveWrite(p)
Scan(p) == ScanBegin(p) \/ ScanLoad(p) \/ ScanRead(p) \/ ScanLoaded(p) \/ ScanProbe(p)
             \/ Resolve(p) \/ UseResolved(p)
Stop(p) == StopSole(p) \/ StopNamed(p) \/ KillApp(p) \/ KillXvfb(p)
Prune(p) == PruneBegin(p) \/ PrunePick(p) \/ PruneEnd(p) \/ PruneLoad(p) \/ PruneRead(p)
              \/ PruneJudge(p) \/ PruneStat(p) \/ PruneRemove(p) \/ PruneRmdir(p)
Log(p) == LogMkdir(p) \/ LogAppend(p)

Process(p) == Start(p) \/ Resize(p) \/ Save(p) \/ Scan(p) \/ Stop(p) \/ Prune(p) \/ Log(p)

Next == \/ \E p \in Procs : Process(p) \/ Killed(p)
        \/ \E s \in Sessions : Dies(s) \/ Ages(s)

\* A command is a sequential program whose calls return.
Fairness == \A p \in Procs : WF_vars(pc[p] # "idle" /\ Process(p))

Spec == Init /\ [][Next]_vars
FairSpec == Spec /\ Fairness

-----------------------------------------------------------------------------
(***************************************************************************)
(* Properties.                                                             *)
(***************************************************************************)

(***************************************************************************)
(* A session whose start has returned and that is still running never      *)
(* loses its session.json, whatever commands run on the store at the same  *)
(* time: "`session prune` removes stale sessions and skips active          *)
(* sessions" (docs/release-smoke.md:23).                                   *)
(***************************************************************************)
NothingActiveIsLost ==
  \A s \in Sessions : Up(s) => dir[s] /\ file[s] # "none"

(***************************************************************************)
(* A prune that reports success has removed every session that was dead    *)
(* and past the maximum age when it began, whatever the other commands did *)
(* to the store meanwhile; only a resize of the session can save it again. *)
(***************************************************************************)
Resized(s) == \E p \in Procs : Command[p] = "resize" /\ sid[p] = s

PruneIsThorough ==
  \A p \in Procs : Command[p] = "prune" /\ pc[p] = "done" =>
     \A s \in before[p] : file[s] = "none" \/ Resized(s)

(***************************************************************************)
(* A prune that has ended has removed every such session: "Remove stale    *)
(* session directories" (docs/manual.md:150).                              *)
(***************************************************************************)
PruneRemovesStale ==
  \A p \in Procs : Command[p] = "prune" /\ pc[p] \in {"done", "raised"} =>
     \A s \in before[p] : file[s] = "none"

(***************************************************************************)
(* Without --session a command works on the newest active session, "the    *)
(* most recent, selected as max over the total order (started_at,          *)
(* session_id)" (session_resolve.py:39-40): no session that was active     *)
(* from the moment the command looked until now is newer than its choice.  *)
(***************************************************************************)
ResolvesNewest ==
  \A p \in Procs : pc[p] = "resolved" =>
     \A s \in before[p] : Up(s) => s <= sid[p]

(***************************************************************************)
(* Without --session a stop never picks one of several active sessions: it *)
(* "Raises on zero or multiple active sessions without explicit            *)
(* session_id" (session_stop.py:54).                                       *)
(***************************************************************************)
StopsOnlySole ==
  \A p \in Procs : pc[p] \in {"kill_app", "kill_xvfb"} =>
     \A s \in before[p] : Up(s) => s = sid[p]

(***************************************************************************)
(* The session.json of a session that is up can be read again as soon as   *)
(* no save of it is in flight, unless a save of it was killed: saving in   *)
(* place truncates first, so what was longer before leaves no tail         *)
(* (file_session_repository.py:45).                                        *)
(***************************************************************************)
RecordReadable ==
  \A s \in Sessions :
     /\ stage[s] = "up" /\ file[s] # "none"
     /\ \A p \in Procs : sid[p] = s => ~ fd[p] /\ pc[p] # "killed"
     => file[s] = "saved"

(***************************************************************************)
(* Every command ends.                                                     *)
(***************************************************************************)
CommandsEnd == \A p \in Procs : pc[p] \in Steps ~> pc[p] \in Ended

(***************************************************************************)
(* The inductive invariant behind NothingActiveIsLost, when no session is  *)
(* on Android: what a prune is about to remove will never be up again, and *)
(* what is being started is too young to be removed.                       *)
(***************************************************************************)
Starting(p, s) ==
  Command[p] = "start" /\ pc[p] \in {"mkdir", "open", "write"} /\ sid[p] = s

Condemned(s) == stage[s] # "no" /\ ~ Up(s) /\ \A p \in Procs : ~ Starting(p, s)

Known(s) == stage[s] # "no"

\* A command at work on a session has one, a command that waits has none.
HasSession ==
  \A p \in Procs : /\ pc[p] \in Steps \ {"scan", "pick", "probe"} => sid[p] # 0
                   /\ pc[p] = "idle" => sid[p] = 0

\* Which command takes which steps.
StepsOfCommands ==
  \A p \in Procs :
    /\ pc[p] \in {"mkdir", "open", "write"} => Command[p] \in {"start", "resize"}
    /\ pc[p] = "resize" => Command[p] = "resize"
    /\ pc[p] \in {"scan", "probe", "resolved", "kill_app", "kill_xvfb"}
         => Command[p] \in {"resolve", "stop"}
    /\ pc[p] = "read" => Command[p] \in {"resolve", "stop", "prune"}
    /\ pc[p] \in {"pick", "load", "judge", "stat", "remove", "rmdir"} => Command[p] = "prune"

\* What the commands and the store speak of has been started.
AllKnown ==
  /\ \A s \in Sessions : dir[s] \/ aged[s] # {} => Known(s)
  /\ \A p \in Procs : /\ sid[p] # 0 => Known(sid[p])
                      /\ \A s \in todo[p] \cup found[p] : Known(s)

\* A record is in a directory, and so is one that is being written.
RecordsLinked ==
  /\ \A s \in Sessions : file[s] # "none" => dir[s]
  /\ \A p \in Procs : fd[p] => /\ pc[p] \in {"write", "raised"}
                               /\ sid[p] # 0 /\ file[sid[p]] # "none"

StartsAreYoung ==
  \A p \in Procs, s \in Sessions : Starting(p, s) =>
    /\ stage[s] = "starting" /\ aged[s] = {}
    /\ \A q \in Procs : Starting(q, s) => q = p

StartsStayOpen ==
  \A p \in Procs : Command[p] = "start" /\ pc[p] = "write" => fd[p]

VictimsAreStale ==
  \A p \in Procs, s \in Sessions : sid[p] = s =>
    /\ pc[p] \in {"remove", "rmdir"} => Condemned(s)
    /\ pc[p] = "stat" => Condemned(s) \/ "mtime" \notin aged[s]

StoreInvariant ==
  /\ HasSession /\ StepsOfCommands
  /\ AllKnown /\ RecordsLinked /\ StartsAreYoung
  /\ StartsStayOpen /\ VictimsAreStale /\ NothingActiveIsLost

(***************************************************************************)
(* The inductive invariant behind ResolvesNewest and StopsOnlySole, when   *)
(* there is no resize: records are only written by starts, so a loop finds *)
(* every session that was up when it began.                                *)
(***************************************************************************)
WrittenOnce ==
  /\ \A s \in Sessions : stage[s] = "up" => file[s] \in {"saved", "none"}
  /\ \A p \in Procs : pc[p] = "write" /\ Command[p] = "start" => file[sid[p]] = "empty"

LoopsMissNothing ==
  \A p \in Procs, s \in Sessions : Command[p] # "prune" /\ s \in before[p] =>
    /\ stage[s] = "up"
    /\ Up(s) => /\ pc[p] \in {"scan", "probe"} => s \in todo[p] \cup found[p]
                /\ pc[p] = "read" => s \in todo[p] \cup found[p] \cup {sid[p]}
                /\ pc[p] = "resolved" => s <= sid[p]
                /\ pc[p] \in {"kill_app", "kill_xvfb"} => s = sid[p]

LoopInvariant == WrittenOnce /\ LoopsMissNothing

(***************************************************************************)
(* The inductive invariant behind PruneIsThorough: a stale session has     *)
(* been removed, or resized, or the prune has still to come to it.         *)
(***************************************************************************)
Ahead(p, s) ==
  /\ live[s] = {} /\ "start" \in aged[s] /\ file[s] = "saved"
  /\ \/ s \in todo[p] /\ pc[p] \in {"pick", "load", "read", "judge", "stat", "remove", "rmdir"}
     \/ sid[p] = s /\ pc[p] \in {"load", "read", "judge", "remove"}
     \/ pc[p] \in {"raised", "killed"}

PruneInvariant ==
  \A p \in Procs, s \in Sessions : Command[p] = "prune" /\ s \in before[p] =>
    /\ Known(s) /\ \A q \in Procs : ~ Starting(q, s)
    /\ pc[p] # "idle"
    /\ file[s] = "none" \/ Resized(s) \/ Ahead(p, s)
=============================================================================
