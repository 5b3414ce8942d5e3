# aieyes in TLA+

aieyes lets an agent drive GUI applications: it starts an application on a
display of its own (Xvfb, a D-Bus/AT-SPI bus, optionally Firefox with
Marionette; or an app on an Android device), reads the accessibility tree, acts
on it and records what was done. It is used through a command line (every
command is a process of its own), an MCP server (one asyncio process for many
clients) and a scenario runner. This directory models the parts in which
processes, files and callers interact, model-checks them with TLC and proves the
central results with TLAPS. Paths below are relative to `src/src/aiyes/` of the
repository unless they say otherwise.

## Inventory

| part | state | operations | interacts with | what is hard | what makes it right |
|---|---|---|---|---|---|
| **Session start** `domain/use_cases/session_start.py`, `adapters/{display_allocator_adapter,xvfb_adapter,atspi_bus_adapter,subprocess_adapter,file_marionette_profile}.py` | locals of the launcher (pids, display, profile), processes, X lock files, profile directory | allocate, provision, start Xvfb/bus/app, check, save; release in the `finally` block | session store, the host, other launchers | every step can fail; processes die; launchers race for displays; signals may be refused | all or nothing; nothing left over that no command can find; displays not shared |
| **Session store** `adapters/{file_session_repository,file_session_cleanup}.py`, `domain/use_cases/{session_resolve,session_stop,session_liveness,session_resize,prune}.py` | `~/.aieyes/<id>/session.json`, mtimes | save, load, load_all, resolve, stop, resize, prune | all commands | no lock; save is not atomic; liveness is read before it is used | the newest session is chosen; only a sole session is stopped by default; prune takes stale sessions and no other |
| **Operation log** `adapters/file_operation_log.py`, `domain/operation_record.py` | `operations.jsonl` per session | append with rotation, read | all commands, MCP | rotation is read, write, rename without a lock | rotation drops the oldest records only |
| **MCP dispatch** `adapters/mcp_server.py` | per-session locks, a global lock, the executor's threads | arrive, resolve, lock, run in a thread, answer, log; cancellation | store, log, use cases | handlers interleave at awaits; calls are cancelled; threads are few | one use case per session at a time, in order; true answers and records |
| **AT-SPI worker connection** `adapters/atspi_worker_connection.py`, `atspi_persistent_worker.py`, `adapters/atspi_{tree,action,window}_adapter.py`, `cli/composition_root.py` | worker process, request counter, two pipes, the buffer of the reader | start, handshake, send, stop; fallback to a one-shot worker | tree, action and window adapters | late answers stay in the pipe; `select` does not see the buffer; what raised or timed out may have been done | an answer belongs to its request; nothing is done twice without a cause; every call returns |
| **Node ids** `adapters/atspi_subprocess_worker.py`, `domain/node_id.py`, `adapters/{file_tree_store,android_tree_adapter,android_action_adapter}.py`, `domain/use_cases/{inspect,find,diff,action,compound_do,menu}.py` | `tree.json` (its registry is never filled), the dump file on the device | number a tree, store it, turn an id back into an element | AT-SPI, adb, a second caller | the screen changes between commands; elements cannot be read; the walk, the search and the pruned file number apart | an id denotes what its caller saw under it as long as nothing came or went before it |
| **Waiting** `domain/use_cases/{wait,wait_stable,reactive_wait}.py`, `adapters/{linux,android}_reactive_wait_adapter.py` | deadline, baseline, counter | poll, compare, answer; listen for native events | tree adapter, event worker | the screen changes between polls and during reads; reads fail; the deadline passes during one | an answer was true, a timeout has missed nothing that lasted, every wait ends in time |
| **Scenario runner** `domain/use_cases/scenario_run.py`, `adapters/scenario_use_case_executor.py` | results, context; the executor's session id and outputs | steps, cleanup, evidence | session start and stop, all interaction commands | failing steps, failing cleanup, an executor that outlives the run | whatever was started is cleaned up; a run acts on its own session |
| **Marionette client** `adapters/marionette_adapter.py`, `domain/use_cases/{eval,query_dom,page_text,screenshot_selector}.py` | a connection per port, `_ready`, `_msg_id` | connect, handshake, command, evict and retry once | Firefox | late replies; a cached connection to a Firefox that is gone | a reply belongs to its command; a script runs twice only by a retry; dead connections heal |
| **The two surfaces** `cli/main.py`, `cli/schema_gen.py`, `cli/composition_root.py`, `adapters/mcp_server.py` | none of their own | parse, resolve, run, log; list and serve tools | everything | 44 commands written once for Click and once for MCP; failures before, in and after resolution | both do the same to the same session, record it truly, and announce it rightly |
| Interaction commands, Android input and gestures, screenshots, diagnostics | none, or output files | one adapter call each | host | little control flow | they are commands and tools of `Surfaces` |
| Tree diff, filters, aliases; presenters, help; environment checks | none | pure functions, formatting, probes | | | |

`PROJECT.json` lists the same components with what is modelled of each, and under
`hazards` what each is exposed to at which line.

## Modules

| module | role |
|---|---|
| `SessionStart` | launchers against a host; one action per adapter call |
| `AtomicStart` | what a start promises: it is all or nothing |
| `SessionStore` | concurrent CLI commands on `~/.aieyes`; one action per file system call |
| `McpDispatch` | the handlers of concurrent MCP calls, locks and worker threads |
| `SerialServer` | what the dispatch promises: one queue per session |
| `ServedSessions` | composition: `McpDispatch` with the sessions its calls use, stop and start |
| `OperationLog` | appends, rotations and readers on the inodes of one log |
| `ScenarioRun` | scenario runs on the executor of one server process |
| `WorkerConnection` | adapter calls, the persistent AT-SPI worker and the pipes between them |
| `MarionetteClient` | calls, the cached connection and the Firefox behind it |
| `NodeRefs` | node ids from the tree they were shown in to the element they end up on |
| `Waits` | wait, wait-stable and wait-reactive against a changing application |
| `Surfaces` | all commands and all tools: arguments, sessions, effects, records, hints |

`MC<module>` holds the instances of a module for TLC. The proofs are in `SessionStart_proofs`,
`SessionStore_proofs`, `McpDispatch_proofs` (with those of `ServedSessions`),
`OperationLog_proofs` (with those of `Surfaces`, which writes its records),
`ScenarioRun_proofs`, `AtspiWorker_proofs` (`WorkerConnection` and `NodeRefs`),
`MarionetteClient_proofs` and `Waits_proofs`.

Operators whose names begin with `Bug` (and `LateExpired`) are mutations: each is a definition
of the module changed as a plausible bug would change it. They are not part of any next-state
relation; a property is kept only if TLC finds it violated when the original is replaced by its
mutation.

### SessionStart

`pc[s]` is the next adapter call of the launcher of session `s`; `mode`, `display`
and `handle` are the locals of `_execute_linux` and `_execute_android`, `alive`,
`holder`, `screen`, `profile` and `file` are the host. The `finally` block is the
chain `release_app`, `release_bus`, `release_xvfb`, `release_profile`, each
guarded by what is not `None`. The host moves by itself: an Xvfb binds its display
some time after it was spawned (the code polls it once, and `start_bus` only takes
1.5 seconds), one that loses the race exits, an app connects to whichever server
owns its display, processes die, the launcher is killed. Signals to the app of a
`Privileged` session are refused, as `os.kill` does for a process of another user.
In Android mode the process `app` is the adb launcher on the host; the app on the
device is not part of this module.

### SessionStore

A process of `Procs` runs one command. `SaveMkdir`, `SaveOpen` (truncation),
`SaveWrite`, `ScanLoad` (`exists()`), `ScanRead` (`read_text()`), `PruneLoad`,
`PruneRead`, `PruneJudge` (liveness), `PruneStat` (mtime), `PruneRemove` (`rmtree`)
and `PruneRmdir` are the file system calls; other commands run between any two of
them. `file` tells a record that loads from one that is missing, truncated
("empty") or overwritten in part ("garbled"). Time is `Ages`: a session's start
time or its directory's mtime passes the maximum age. It is taken only while no
command is in flight, since a command takes seconds and the maximum age is 72 hours.
`before` is a history variable: the answer the store owed when the command looked.

Left out: the bus pid and profile that `stop` releases too, `resize`'s second
attempt, the orphan scan of `prune`, reuse of pids.

### McpDispatch

One event loop runs all handlers, so a handler is atomic between awaits; it awaits
twice, for its lock and for its thread. `Arrive*`, `Acquire`, `Finish` are the
handler's stretches between awaits; `Begin` and `End` belong to the executor's
threads; `CancelWaiting` and `CancelWorking` deliver a `CancelledError` at either
await, which runs the `finally` block and not the `except` block. Which session a
call without id resolves to is a free choice: `SessionStore` models how it is made.

### OperationLog

A writer is one `append`: open (`OpenAppend`), write, and `_rotate_if_needed`
(`OpenRead`, `ReadLines`, `OpenTmp`, `WriteTmp`, `Replace`, `RotateFails`). Names and
inodes are apart: whoever has opened a file keeps writing to or reading from its inode
after another file was renamed over the name. The temp file has one name for all
rotations, so a second rotation truncates the first one's inode and the later of two
writes at offset 0 may leave a tail of the earlier (`Overwrites`). `disturbed` remembers
that an append, or the decision to rotate, fell between another rotation's read and its
rename or used an inode that was no longer the log: that is exactly what may lose
records, and without it nothing does. Left out: `read_all`, how a record is serialised and cut
to 4096 bytes, short writes on a full disk.

### ScenarioRun

`phase[r]` is where `ScenarioRunUseCase.execute` is for run `r`: among the steps, in
`_run_cleanup`, ended, or left by an exception (`raised`); `at[r]`, `started[r]`,
`context[r]`, `results[r]` and `status[r]` are its locals. `session` and `outputs` are
the fields of the one `ScenarioUseCaseExecutor` of a process, which
`composition_root.py:683` builds once and never resets: they outlive a run. A step that
calls a use case is two actions, `Call*` with what the executor knows then and `Return*`
with the outcome; `Conclude` is what the loop does with a result, skipping included.
An output is abstracted to the session whose node it holds, `"empty"` (there is none) or
`"absent"` (no step of that id has run). Documents are values: `Valid` is
`domain/scenario.py`'s rule that a document with a start has a stop somewhere. The kinds
that differ in no property (inspect, typing, keys, screenshots, navigation, mouse,
gestures) are `"input"`. `owner`, who started a session, is a history variable.
`Serial` says that no client cancels; then the dispatcher's global lock (`McpDispatch`)
admits one run at a time.

Left out: evidence files, what an assertion compares, the find-and-swipe loop inside
`scroll_into_view` (its outcomes are kept), and what happens inside a session start or
stop (`SessionStart`, `SessionStore`).

### ServedSessions

EXTENDS `McpDispatch` and gives its calls a meaning: a call uses a session's display,
stops the session or starts one. Every step of the dispatcher is a step here (`Dispatched`,
`EndWork`), with the use cases' own steps between `Begin` and `End`: `Drive` loads
`session.json` and drives the display it names; `KillApp` and `KillXvfb` are the two kills
of a stop, between which other sessions' calls go on; `Probe` and `Spawn` are a start's
choice of a display and the spawn on it. `born` is the order of `started_at`; a call
without an id is given `Newest` when it arrives, that is before it awaits its lock. A
session also dies by itself (`Dies`). `hit`, `due`, `sole` and `lost` are history variables.

### WorkerConnection

One action per stretch between waits of a call: `Enter` (the adapter looks at `_worker`),
`Send` (under the lock), `Receive`, `ReceiveNothing` (the worker is gone) and `TimeOut`,
and `OneShot`, the one-shot worker that every failure falls back to. `stdin` and `stdout`
are the pipes; `buffer` is what the buffered reader of `stdout` has taken from the pipe:
`select` looks at the pipe only (`Readable`), `readline` at the buffer first (`Lines`).
The worker takes, executes and answers one request after another; one that raises, dies
or is killed may have had its effect before. `runs`, `late` and `failed` are history
variables. The connection is stopped between calls (`Stop`): the one-call processes of the
command line are the only ones that start it.

### MarionetteClient

`pc[c]` is the frame that call `c` waits for: the hello, the reply to NewSession, the reply
to FindElement of an element capture, or the reply to its last command. Between two waits
the adapter is one action. `cached` and `ready` are `_conns` and `_ready` of one port;
`open` says whether Firefox still has its end; `inbox` holds the frames that have arrived and
`todo` what Firefox has yet to do, for closed connections as well. A socket that was closed
by the peer may take one more command (`req = 0`). Errors of the connection and timeouts are
`Fail`: evict, connect and start over if the connection came from the cache, else raise and
leave it there. A reply with another number is `ReceiveOther`, a `RuntimeError` that evicts
nothing. One call at a time: the dispatcher holds the session's lock.

### NodeRefs

A screen maps the path of each element to its label, which stands for role and name. A walk
numbers elements in preorder from one (`NumberIn`); the tree walk and the search of an action
differ in what they do with an element that cannot be read (`TreeOf`, `Scan`). `inspect` and
`find` store the pruned tree, `diff` the whole one; `action` looks for the number in the screen
as it is then, `menu` takes the stored tree for its first item and reads again for the others.
The code can also look an id up by the path in a stored registry, but the program never gets
there: the use cases are put together in `composition_root.py` only, and the tree port they are
given, `_DispatchingTree` (218-228), has no `last_registry`. So the model has no registry.
On Android a tree comes by pipe, or by a file on the device that all commands share (`DumpFile`, `CatFile`,
`RemoveFile`), and an action taps where the node was. The application redraws at any moment,
commands are killed between any two of their steps.

### Waits

One call and a clock in ticks. `Capture` is the moment a read sees the screen, within a read
of at most `MaxRead` ticks; `Return` judges it (`Satisfied`, `NextBase`, `NextCounter`),
`Check` looks at the deadline and sleeps. The kinds of `wait`, `wait-stable` and of both
observers differ in these operators only. `Listen`, `Event`, `WorkerTimer` and `WorkerKilled`
are the event worker that a native wait on Linux starts, with its own timer and the grace its
parent adds. A screen is a set of nodes with id, stable id (empty, or one that others may have as
well), role, name and app. `Distance` counts as `trees_structurally_equal` does: nodes are matched
by their stable id on Android, if neither screen repeats it, and by their id otherwise; one added
or removed counts once, a role and a name that changed once each, and the app never. `Fingerprint`
is what `wait-reactive` compares, with repetitions. `shown`, `window` and `deaf` are history variables.

### Surfaces

`Commands` has every command of Click with its required arguments, how it comes by its
session and what its use case changes; the sets of `Tool` have every entry of the dispatch
table with the arguments its handler reads and the faults it looks for itself. A call is
parsed (`CliParse`, `McpParse`), its session resolved (`Resolve`, `Unresolved`), checked
(`McpCheck`) and run (`Run`, `RunStart`, `RunStop`, `RunScenario`), and logged at its end,
unless the append fails. `Interrupted` and `InterruptedRun` are Ctrl-C on the command line, before
and after the effect of the use case. Sessions come and go between these steps. A fault of a call is one
class of refused argument, not a value. What the use cases do inside is in the other modules.

## Runs

Passing runs (all exhaustive on their instance):

| run | question | instance |
|---|---|---|
| `start` | Does a start leave nothing that no command can find, do displays change hands only when a server ends, does `SessionStart` implement `AtomicStart`, does every start end? | 2 launchers, 2 displays, one app that cannot be signalled, slow X servers, crashes, kills |
| `store_safety` | Does prune keep active sessions and remove stale ones, do commands without `--session` choose the right session? | 1 session and one being started; start, stop, resize, resolve, prune, three at a time; dying processes, ageing, killed saves |
| `mcp_calls` | Are calls on a session serial and in order, are answers and records true, does a start that hangs hold up calls on sessions? | 4 calls, 2 sessions, 2 threads; session-less calls may hang |
| `served` | Is a call served that arrived before any stop of its session, does any call meet a session half stopped, does a log keep the order of what ran whatever is cancelled? | 3 calls, 2 sessions, 2 displays, 2 threads, cancellation, failing appends, one session that dies |
| `log_rotation` | Which records may rotation lose, is the log bounded, what do readers see? | 3 writers, 1 reader, a limit of 2, a log that is full or missing, kills, failing rotations |
| `scenario` | Are steps and cleanup run as declared, does a run act on its own session and on nodes found there whatever earlier runs left behind, does no session leak without a word? | 2 runs one after the other, 3 sessions, every valid document of a body of one to three steps with or without start and cleanup; other clients' sessions, dying sessions |
| `worker` | Which answers are believed, how often is a request executed, does every call return? | 3 concurrent calls, one of which lists windows; a worker that is slow, raises, dies, is stopped |
| `marionette` | Which replies are believed, when is a script executed twice, which connections heal? | 3 calls, one of them an element capture; Firefox started twice at most, slow, stopped at any moment |
| `node_refs` | Which element does an id end up on? | 2 callers, 3 calls, 3 screens, 1 redraw, a walk that cannot read one element; both backends |
| `waits` | What does an answer or a timeout say about the application, and does every wait end in time? | 4 screens (repeated stable ids, a changed role, name, app and number), 2 changes, a timeout of 10 ticks, polls every 1 or 2, reads of up to 1; both backends |
| `surfaces` | Does every command and tool do what it does to the session it was asked for, is its record true, is it announced rightly? | all commands and tools, each argument missing or refused, or Ctrl-C; a Linux and an Android session |

`cancel_overlap` expects a violation. It checks `SessionSerial`, which is what a test of the
repository says of the server ("Concurrent calls to the same session are serialized."), when
a client may cancel: the handler leaves the lock, the thread of its use case runs on.

More instances lie beside them and can be run by hand. One holds:
`MCSessionStore_liveness.cfg` (`CommandsEnd`: the loops over sessions end). Each of the
others violates its one property and belongs to a finding of `PROJECT.json` or a hazard there
(so does `SubmittedWorkRuns` of `McpDispatch`, put in the place of `SessionSerial` in
`MCMcpDispatch_cancel_overlap.cfg`: a call cancelled in the executor's queue never runs):

| configuration | what happens |
|---|---|
| `MCSessionStart_screen_race` | two launchers probe before either server has bound: the loser commits with its app on the winner's screen |
| `MCSessionStart_profile_leak` | provisioning fails before the guarded region: the temp profile stays |
| `MCSessionStore_stop_race` | a resize has truncated one of two records: `stop` takes the other session for the only one and kills it |
| `MCSessionStore_android_prune` | prune judges an Android session by the pid of an adb launcher that has exited |
| `MCSessionStore_prune_wedged` | one truncated record ends the prune; stale sessions after it stay |
| `MCScenarioRun_foreign_stop` | the start fails, the cleanup runs, and `stop_session` without a session stops another client's |
| `MCScenarioRun_leak` | a run that raises, or a document without cleanup, leaves its session behind |
| `MCScenarioRun_stale_output` | an action uses the node that a step of an earlier run found |
| `MCScenarioRun_serial` with `Serial = FALSE` | after a cancellation two runs overlap and one acts on the other's session |
| `MCNodeRefs_stale_id` | an element is inserted before the one an id was shown for, and the id leads to another |
| `MCOperationLog_lost_record` | a record appended between a rotation's read and its rename is lost |
| `MCMarionetteClient_poisoned` | one timeout on a fresh connection, and every later call on it finds the reply to another's command |
| `MCServedSessions_stale_display` | a call on a stopped session drives the display that the next start was given |
| `MCServedSessions_stop_newest` | over MCP, a stop without an id stops the newest of several sessions |

The modules define more invariants than the runs name: the type invariants (`TypeOK`,
`ServedTypeOK`, `RefsTypeOK`, `SurfacesTypeOK`), the inductive invariants of the proofs
(`StartInvariant`, `StoreInvariant`, `PruneInvariant`, `DispatchInvariant`, `AnswerInvariant`,
`WorkerInvariant`, `MarionetteInvariant`, `HealInvariant`, `InTime`, `SeenIsTrue`,
`WindowIsTrue`, `TimeoutInvariant`, `LockInvariant`, `OrderInvariant`, `ServedInvariant`,
`LogInvariant`, `CallInvariant`, `RefsInvariant`), and consequences of what is checked
(`AllOrNothing`, `StartedIsComplete`, `ReleasedInReverse`, `RecordReadable`,
`CompleteBelowLimit`, `InStep`, `NoGhosts`, `RefusedDoesNothing`, `ListedIsServed`,
`CallsEnd`). They hold on the same instances (`AnswerInvariant` on those without `"log"`);
adding a name to the `.cfg` checks it. `LoopInvariant` of `SessionStore` holds on instances
without a resize.

### Disagreements that are not properties

Read while modelling, and true of the models as well:

- `diff` compares the pruned tree that `inspect` or `find` stored with the whole live tree
  (`diff.py:66`), so unnamed containers are reported as added; the manual (`docs/manual.md:188`)
  says "Compare the stored tree (from last `inspect`) against the live tree."
- The dispatcher in front of the tree adapters (`composition_root.py:218`) has no
  `last_registry`, so what is stored is a tree without registry: an action resolves its id by
  number, where `action.py:79` says "Pass persisted registry for stable node resolution" and the
  manual (`docs/manual.md:50`) calls an id "path-based". `MCNodeRefs_stale_id` shows what follows.
- The walk that shows a tree leaves out an element whose role cannot be read, the search of
  an action counts it: after such an element the two number differently. `SeenIsHit`
  is therefore about walks that read everything.
- A find that raises leaves the output that an earlier run stored under its id
  (`scenario_use_case_executor.py:265`), and an action of the cleanup then uses that node in
  the session of this run. `ActsOnWhatItFound` is therefore about sources that passed.
- `menu` goes on to the next item whether or not the click on the last one worked (`menu.py:125`).
- `android_reactive_wait_adapter.py:70` takes a first query that failed for a baseline: any
  app then counts as a change.
- Over MCP, `swipe` and `session_status` are in neither risk set and so are announced as
  neither read-only nor destructive; `scenario_run` looks at `evidence_dir` after the run
  (`mcp_server.py:1154`).
- On the command line, a click with one coordinate and the preflight of an invalid document
  exit with 2 but are logged with exit code 0. Ctrl-C passes the `except Exception` of every
  command as well: Click exits with 1, the `finally` block logs 0, and a `session start` or
  `session stop` that it ends may be logged without its session. `FailureIsRecorded` and
  `EffectsAreNamed` leave these out and say so.
- `scenario_run` holds the global lock of the MCP server, not those of the sessions that its steps
  act on: beside a call on such a session it drives that session too. `SessionSerial` is about
  the calls that the dispatcher knows to be on a session.
- Marionette's `receive` takes the length prefix off its buffer before the body is there
  (`marionette_adapter.py:99-101`): a read that times out within a frame leaves a body without
  prefix. In `MarionetteClient` a frame arrives whole.

### Bounds

Two launchers suffice for the races of `SessionStart`, which are between a
launcher and one other; two displays let both probe the same number, let one of
them find every number taken, and leave room for a stale lock. In `SessionStore`
two sessions are the least for which "newest" and "only" mean something, and each
run has one command of each kind it names. `Together` bounds `store_safety` to the
commands that write what a third reads: start, stop and resolve; start, stop and
prune; resize, stop and prune. `Killable` are the commands whose death leaves something
half made, the saves. `RecordReadable` is about a single resize and excepts killed
saves: `save` writes in place. One prune per run: a second prune that finds a directory
half removed is not explored. Four calls of `McpDispatch` put two in the queue of a
lock that a third holds while the other session is busy as well. Three writers of
`OperationLog` on a full log of two let rotations and appends overlap in every way two
can, with a third to catch up after a killed or failed one; the code's limit of 10000
only makes rotation rarer.

Two runs of `ScenarioRun` are what a leftover
needs, one to leave it and one to meet it; with three sessions both can start one while
another client holds the third. The documents of `MCScenarioRun` put every kind of step,
strict or not, before and after a start, a stop and a failing step, and an action in the
cleanup.

Three calls of `WorkerConnection` are one that gives up, one that finds its answer in the
pipe, and one that finds the rest in the buffer. Three of `MarionetteClient` leave a
connection cached, have it fail and meet what that left; a second start of Firefox is the
least that makes a cached connection dead and the port alive. In `ServedSessions` three calls
are a start, a stop and a use, in any order; a second display lets a start choose between
that of the stopped session and another. One redraw and three calls of `NodeRefs` put a
redraw anywhere in a look, the other caller's look and an action; the three screens are one,
the same with a number shifted, and the same with a label changed, and the element that a
walk may not read precedes another. Walks that fail elsewhere add no new order. In `Waits`
two changes let a condition come and go again; ten ticks are several polls, and
`Horizon` ends the clock after every deadline has passed. `Consecutive` and `Tolerance` are
not zero or one both, so that small differences can add up. `Surfaces` needs two sessions for
"the newest" and "the other one"; two calls never overlap in it (that is `McpDispatch`).

`CHECK_DEADLOCK FALSE` everywhere: launchers, commands and calls are finite in
number and the system stops when all have ended.

### Fairness

- `start`: weak fairness of each launcher's next step, and nothing of the
  host: adapter calls return (they have timeouts, except `readline` on the pipe of
  `dbus-daemon`, see `hazards`).
- `worker`: weak fairness of each call that has begun: threads run, and a wait for the
  worker ends by an answer, by the end of file or by its timeout. Nothing is assumed of the
  worker.
- `waits`: weak fairness of the clock, of the call's own steps (reads return, since every
  command they run has a timeout), and of the event worker's timer and kill; nothing of the
  application.
- `MCSessionStore_liveness.cfg`: weak fairness of each command's next step.
- `marionette` states fairness of calls that have begun; only `CallsEnd` would need it.
- `mcp_calls`: weak fairness of resuming a handler (the event loop), of a free
  thread taking the next use case (the executor), and of use cases returning except
  under the keys of `Hung`. A second thread is needed: with one thread, a hung start
  stops everything; with cancellation, hung use cases pile up until no thread is
  left. The comment at `adapters/mcp_server.py:471` calls that a known limitation.

## Proofs

`SessionStart_proofs`, for every number of launchers and displays:
`TypeCorrect`, `InvariantHolds` (`StartInvariant`), and from it
`RefusedLeavesNothing` (`AllOrNothing`), `CommitIsComplete` (`StartedIsComplete`),
`AllIsVisible` (`NothingInvisible`), `DisplaysStayWithTheirServer`, `ReleaseOrder`,
and `StartIsAtomic`: `SessionStart` implements `AtomicStart`. None of the properties
is inductive by itself: that a refused start leaves nothing depends on what each
earlier release left. `StartInvariant` says at each `pc` which pids the launcher
holds, that every living process of the session is among them, and what has been
left of file and profile; it is checked by `start` and proved inductive with
one step per action.

`SessionStore_proofs`, for every number of sessions and of concurrent commands of every kind,
any of which may be killed: `StoreTypeCorrect`, and

- `NothingActiveIsEverLost` (`NothingActiveIsLost`), when no session is on Android. A prune
  judges a session and removes it later, so `StoreInvariant` says of what it is about to remove
  that it is `Condemned`: it was started once, is not up, and nobody is starting it. That is
  stable, because an id is used once; and a session that is being started is too young for either
  age to condemn it. `MCSessionStore_android_prune.cfg` shows that the hypothesis is needed.
- `PruneIsEverThorough` (`PruneIsThorough`), without a hypothesis. `PruneInvariant`: a session
  that was stale when the prune began has lost its record, or a resize has been at it, or
  the prune has still to come to it and will find it as stale as it was.
- `NewestIsResolved` (`ResolvesNewest`) and `SoleIsStopped` (`StopsOnlySole`), when moreover no
  command is a resize. `LoopInvariant`: a record that was written is never half written again, so
  a loop that began when a session was up has it ahead of it, in its hand or among what it
  found. `MCSessionStore_stop_race.cfg` shows that the hypothesis is needed.

`McpDispatch_proofs`, for every number of calls, sessions and threads:
`DispatchTypeCorrect`; and under the hypothesis that nobody cancels,
`DispatchInvariantHolds` and `SessionsAreSerial`. The strengthening ties a use case
to its lock: as long as it is queued or running, its handler is at `working` and owns
the lock of its session; a call is in the executor's backlog at most once, and only
while its use case is queued. `cancel_overlap` shows that the hypothesis is needed.
`AnswersAndRecordsAgree` (`AnswerIsTrue`) allows cancellation and supposes that every append
works (`"log" \notin Faults`). `AnswerInvariant`: nothing is answered or recorded before the
handler of the call ends, a call in the backlog is queued, and the record of an answered call
is at one place of one log.

Three results of the same module allow everything, cancelled calls and failing appends too,
or need only that nobody cancels. `LockInvariant` is what is left of the lock when calls may
be cancelled: the handler at `working` owns the lock of its session, nobody else does, and
every handler that waits is once in one queue; a use case may run on without a handler.
`LogKeepsOrder` (`LogInOrder`) adds in `OrderInvariant` that a use case whose handler still
waits for it is the last one begun on its session, so that whoever may still be recorded was
begun after everyone who has been. `DispatchIsSerial` (`KeepsOrder`): without
cancellation `McpDispatch` implements `SerialServer`; every step is a step of its queues
or a stutter, the queue of a session being the owner of its lock and those who wait for it.

`ServedSessions` is a part of the same proof module, since `ServedDispatch` shows that its
specification implies that of `McpDispatch`: what holds of the dispatcher holds of the
composition without another proof, like `ServedLogKeepsOrder`. `WhoIsDueIsServed`
(`DueIsServed`) and `DrivesNoHalfStopped` (`NeverHalfStopped`) rest on `ServedInvariant`,
for any number of calls, sessions, displays and threads, with cancelled stops whose threads
run on: no two living Xvfbs have one display and no two starts one session id; and a call
that was due and has not driven yet still has a whole session, and no stop of that session
runs, holds its lock or stands before it in the lock's queue. It arrived before every stop, and
the lock is fair.

`OperationLog_proofs`, for any number of writers and readers, any limit, any log of earlier
commands, and whatever is killed or fails: `OperationLogTypeCorrect`, `LogInvariantHolds`,
`NewestStay` (`OnlyOldestDropped`), `LogIsBounded` (`BoundedWhenQuiet`), `NoGapIsRead`
(`ReadersSeeNoGap`). The log is in order only as long as nothing has met another rotation
(`disturbed`), so `LogInvariant` is about that case: at most one process is between its reading
and its rename; what it has read is still the log, and the temp file is its own and holds the newest
of those lines once it is written (`RotatesAlone`); a reader's file is the log as it was at some
moment since it opened it (`SeesPast`); and the last writer leaves a log that is not too long, or
another has trimmed it meanwhile (`Trimmed`).
`NoneIsLostBelowLimit` (`CompleteBelowLimit`) needs no such
condition: while there are no more records than the limit nobody rotates at all (`Unrotated`), and
overlapping appends lose nothing.

The second part is about `Surfaces`, for every set of sessions: `RecordsNameTheirSession`
(`EffectsAreNamed`), `RecordsTellFailure` (`FailureIsRecorded`) and `HintsTellTheTruth`
(`HintsAreTrue`). `CallInvariant` says that nothing is done before a call ends, and that a call
which runs has the session it was given, or none when it needs none. The rest is in the tables of
commands and tools (`TableFits`): how a command comes by its session agrees with how its tool
does, and a tool announced as read-only changes nothing but a file; the provers go through
the rows.

`ScenarioRun_proofs`, for every set of valid documents and every number of runs, sessions
and step ids: `ScenarioTypeCorrect`, with the strengthening `ShapeOK` that the step a run
waits for exists in its document; and, while the dispatcher keeps runs apart,
`RunActsOnItsOwnSession` (`OwnSession`). The executor's memory is shared, so the property
is not inductive: `OwnInv` adds that at most one run is active, that a run not begun owns
nothing, and that between its start and its first stop the active run's session is the one
the executor remembers. `MCScenarioRun_serial.cfg` with `Serial = FALSE` shows that the
hypothesis is needed.
On it rest, under the same hypothesis, two more. `ActionsUseWhatTheyFound`
(`ActsOnWhatItFound`): `FoundInv` says that what passed since the last start or stop of the
active run left a node of the executor's session, or none. `NothingLeaksSilently`
(`LeakIsReported`): `LeakInv` says that the session of a run is the one the executor knows,
or is gone, or a stop in the report went wrong; and that a run which owns a session is past
the only start of its document. Without the hypothesis, `RunsDoWhatIsDeclared`
(`RunsAsDeclared`): `DeclaredInv` says that the report is that of the first `n` steps and
then of the cleanup, and that only the last of the `n` may have failed.

`AtspiWorker_proofs`, for every number of concurrent calls and any length of the pipes
(`WorkerConnection`): `WorkerTypeCorrect`, `WorkerInvariantHolds`, and from it `AnswersAreOwn`
(`AnswerIsOwn`) and `SecondExecutionNeedsLoss` (`TwiceOnlyAfterLoss`). Both properties are
about what is still in the pipes, so `WorkerInvariant` says of every message there to which
call it belongs: a request bears the number of its call and has not been executed, an answer
bears it and has been; numbers are unique and never above the counter; and as long as nobody
has given up and the worker lives, at most one message is under way, that of the call that
waits. The last part is what makes a call that fell back to the one-shot worker count as not
executed before. The long steps are `Send`, where a new number has to differ from all others,
and `Respond`, where a message changes from a request into an answer.

The second part is about `NodeRefs`, for every number of commands, any screens of finitely many
elements (`ScreensAssumption`), any sets of labels and any elements that cannot be read:
`RefsTypeCorrect`, `TreesAreFresh` (`DumpIsFresh`), `SeenElementIsHit` (`SeenIsHit`)
and `NamedElementIsHit` (`NamedIsHit`). It begins
with the numbers themselves. That the n-th element met gets the id n is stated in `NumberIn` by
counting, so that no two elements of a walk share an id has to be proved: preorder is
transitive and total and puts nothing before itself (`BeforeAndBefore`, `OneIsBefore`,
`NotBeforeItself`, each by the first entry at which two paths differ), hence the elements up to
one are strictly among those up to a later one (`LaterIsGreater`). `RefsInvariant` says of each
call that its tree has one element for an id, that on
Android what it read was on the screen since it began, also when it came from the file that
every command writes and removes, and that the id it looks for was that of an element with the
wanted label. The two action properties follow by cases: only a worker's action and a tap act
(`WhoActs`), the scan of a readable screen meets the numbers of the walk (`ScanFinds`,
`FreshIsHit`), and an element keeps its number through screens in which nothing comes or goes
before it, whatever changes after it (`NumberIsKept`).

`MarionetteClient_proofs`, for every number of calls and of Firefoxes: `MarionetteTypeCorrect`,
`MarionetteInvariantHolds`, `OwnAnswers` (`AnswerIsOwn`) and `SecondRunNeedsReuse`
(`TwiceOnlyWhenReused`). Replies given up may still be on their way when the next command is
sent, so `MarionetteInvariant` says that a message with the number a call waits for is
that call's and that command's. How often a script runs is bounded by counting: the
executions a call has had and the tasks Firefox has yet to execute for it are together at
most its attempts (`CallAt`, over the cardinality of `ToRun`). `ConnectionHeals` (`SelfHeals`)
rests on `HealInvariant`: while no reply to a command given up is owed, at most one frame is
due or has arrived on the connection, none once it is ready and no call uses it, and it is
the one the waiting command expects, so that nobody meets a frame that is not its own; and a
call during which Firefox stays up and answers in time has an open connection, or has
its one retry left.

`Waits_proofs`, for every set of screens, timeout, poll interval and length of a read:
`WaitsTypeCorrect`, `DeadlineIsKept` (`DeadlineKept`), `AnswersAreTrue` (`AnswerIsTrue`),
`StableIsSure` (`StableIsQuiet`) and `NothingLastingIsMissed` (`TimeoutIsTrue`). `InTime`
bounds the clock at each step of a call by the last look at it; `SeenIsTrue` says that the last
read saw what was shown at some moment since then, and that the baseline and the memory of a
transient target are from no later moment; `WindowIsTrue`, that the last `counter + 1` reads
differ from the first of them by no more than the tolerance, since that first one is the
baseline they are compared with, and a screen differs from itself by nothing, because no two of
its nodes are matched by one key (`KeysDiffer`, `EqualToItself`). A timeout is about reads that were not made:
`TimeoutInvariant` says which of the screens shown so far the reads have judged. Every screen
that stayed for a pause and a read has been read, and was not what was waited for
(`NoneIsMissed`); and, of a wait for stability, the read under way began no later after the
last change than the reads counted since allow, so that no screen has lasted longer than the
wait is patient (`NoneLasts`).

The assumptions are the named `ASSUME`s of the modules; TLC evaluates them on every run.

Of the properties that runs check, only liveness is without a theorem (`StartEnds`,
`OthersAreAnswered`, `CallsReturn`, `WaitsEnd`): it is out of the prover's reach, as are
`ENABLED`, induction over data, and whatever uses RECURSIVE operators. Model-checked only are
also `RecordReadable` of `SessionStore`, `NoGhosts` of `WorkerConnection`, `RefusedDoesNothing`
and `ListedIsServed` of `Surfaces`, and `AnswerIsTrue` of `McpDispatch` where appends fail.
`KeepsOrder` and `SessionSerial` are proved for calls that nobody cancels; with cancellation
the latter is false. The instances that violate a property (see Runs) are TLC's alone.

## What is not modelled, and the plan

1. `RecordReadable` as a theorem of `SessionStore` for a single resize, and `AnswerIsTrue` of
   `McpDispatch` where appends fail.
2. `RefusedDoesNothing` and `ListedIsServed` as theorems of `Surfaces`.
3. The find-and-swipe loop of `scroll_into_view`; the runner composed with the sessions it
   may stop.
4. Tree diff, window filters, aliases and pruning as functions on trees against reference
   definitions.
5. `stop`'s release of the bus and the profile, and the orphan scan of `prune`.

Partly modelled, and why: of the tree functions only what decides which node a command
means; of the scenario runner neither the validation of single fields nor the evidence
bundle, which are data; of Marionette neither the scripts nor the framing (frames arrive whole),
nor that the connections of all ports count their messages together; of the Android adapters not the parsing of adb output, gestures and the
native scroll helper.

Taken for granted: the clock does not jump (`Waits` has one that only goes on, the code asks
`time.time`), timeouts and intervals are not zero (an `ASSUME` of `Waits`), and `uiautomator dump`
that exits with 0 has written the file (`NodeRefs`; `menu` is not run on Android there).

Not planned: presenters, help, the pytest plugin, the session API and the smoke harness
(formatting, or callers of the same commands), environment checks (stateless probes),
screenshots and diagnostics (output only). Reuse of pids needs a model of the pid space.
