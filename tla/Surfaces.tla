------------------------------ MODULE Surfaces ------------------------------
(***************************************************************************)
(* The two surfaces of the program: the commands of the command line and   *)
(* the tools of the MCP server, over the same use cases.  A call is read,  *)
(* its session resolved, its use case run on the adapters of that          *)
(* session's backend, and what came of it written to the operation log.    *)
(* Sessions are started and end while a call is under way.                 *)
(***************************************************************************)
EXTENDS Integers, FiniteSets

CONSTANTS Sessions,  \* session ids; a later session is a larger number
          Android,   \* those of the android backend
          Nil       \* no session, no record

ASSUME SurfacesAssumption == Sessions \subseteq Nat /\ Nil \notin Sessions

(***************************************************************************)
(* The commands.  "session" is how a command comes by its session:         *)
(* "resolved" by the resolver, "raw" as it was given, "own" a new one, or  *)
(* "none"; "needs" the arguments Click requires; "does" what its use case  *)
(* changes.                                                                *)
(***************************************************************************)
Command(name, session, needs, does) ==
  [name |-> name, session |-> session, needs |-> needs, does |-> does]

Look(name, needs) == Command(name, "resolved", needs, {})
Act(name, needs) == Command(name, "resolved", needs, {"gui"})
Report(name) == Command(name, "none", {}, {})

SessionStart == Command("session_start", "own", {"command"}, {"start"})
SessionStop == Command("session_stop", "raw", {}, {"stop"})
SessionQueries == {Report("session_list"), Look("session_capabilities", {})}
SessionResize == Command("session_resize", "resolved", {"resolution"}, {"resize"})
InspectCommands == {Look("inspect", {}), Look("diff", {})}
FindCommand == Look("find", {"role"})
ScreenshotCommand == Command("screenshot", "resolved", {}, {"file"})
ActionCommand == Act("action", {"node_id", "action_name"})
PointerCommands == {Act("mouse_move", {"x", "y"}), Act("mouse_click", {})}
DragCommands == {Act("mouse_drag", {"x1", "y1", "x2", "y2"}),
                 Act("swipe", {"x1", "y1", "x2", "y2"}), Act("mouse_scroll", {"direction"})}
KeyboardCommands == {Act("key", {"keys"}), Act("type", {"text"})}
WaitCommands == {Look("wait", {"role"}), Look("wait_reactive", {"condition"})}
WaitStableCommand == Look("wait_stable", {})
DoCommand == Act("do", {"role", "action_name"})
Diagnostics == {Report("doctor"), Look("debug_bundle", {}), Report("mcp_manifest")}
Housekeeping == {Report("session_metrics"),
                 Command("session_prune", "none", {}, {"prune"})}
StatusCommands == {Look("session_status", {}), Look("detect_dialog", {})}
ClipboardCommands == {Look("clipboard_read", {}), Act("clipboard_write", {"text"})}
GestureCommands == {Act("gesture_pinch", {"x", "y", "scale_factor"}),
                    Act("gesture_two_finger_scroll", {"x", "y", "direction"})}
NavigateCommands == {Act("navigate", {"action"}), Act("goto", {"url"}), Act("reload", {})}
DomCommands == {Act("eval", {"script"}), Look("query_dom", {"selector"}), Look("page_text", {})}
SelectorCommand == Command("screenshot_selector", "resolved", {"selector"}, {"file"})
MenuCommand == Act("menu", {"menu_path"})
ScenarioCommands == {Command("scenario_run", "none", {"scenario_path"}, {"gui"}),
                     Command("scenario_preflight", "none", {"scenario_path"}, {})}
ListingCommands == {Report("scenario_fixtures"), Report("help_json")}

Commands ==
  {SessionStart, SessionStop, SessionResize, FindCommand, ScreenshotCommand, ActionCommand,
   WaitStableCommand, DoCommand, SelectorCommand, MenuCommand}
  \cup SessionQueries \cup InspectCommands \cup PointerCommands \cup DragCommands
  \cup KeyboardCommands \cup WaitCommands \cup Diagnostics \cup Housekeeping
  \cup StatusCommands \cup ClipboardCommands \cup GestureCommands \cup NavigateCommands
  \cup DomCommands \cup ScenarioCommands \cup ListingCommands

(***************************************************************************)
(* The tools.  Those that are listed are the commands, with the schema     *)
(* derived from Click; those that are served have a handler, which reads   *)
(* arguments and looks for some faults itself: "value", a value that is    *)
(* refused wherever it is looked at, "bound", one too large for the MCP    *)
(* server, "path", an output path it does not allow.                       *)
(***************************************************************************)
Required(c) == c.needs

Listed == {c.name : c \in Commands}

Tool(name, reads, checks) == [name |-> name, reads |-> reads, checks |-> checks]

Plain(names) == {Tool(n, {}, {}) : n \in names}

SessionTools ==
  {Tool("session_start", {"command"}, {"value"}), Tool("session_resize", {"resolution"}, {})}
  \cup Plain({"session_stop", "session_list", "session_capabilities", "session_metrics",
              "session_prune"})
InspectTools ==
  Plain({"inspect", "diff"}) \cup {Tool("find", {"role"}, {}), Tool("screenshot", {}, {"value", "path"}),
  Tool("action", {"node_id", "action_name"}, {})}
InputTools ==
  {Tool("mouse_move", {"x", "y"}, {}), Tool("mouse_click", {}, {"value"}),
   Tool("mouse_drag", {"x1", "y1", "x2", "y2"}, {}), Tool("mouse_scroll", {"direction"}, {}),
   Tool("key", {"keys"}, {"value"}), Tool("type", {"text"}, {"bound"})}
WaitTools ==
  {Tool("wait", {"role"}, {"bound"}), Tool("wait_stable", {}, {"bound"}),
   Tool("wait_reactive", {"condition"}, {"bound"}), Tool("do", {"role", "action_name"}, {})}
ReportTools ==
  Plain({"doctor", "debug_bundle", "mcp_manifest", "session_status", "detect_dialog",
         "clipboard_read"}) \cup {Tool("clipboard_write", {"text"}, {})}
GestureTools ==
  {Tool("gesture_pinch", {"x", "y", "scale_factor"}, {}),
   Tool("gesture_two_finger_scroll", {"x", "y", "direction"}, {}),
   Tool("swipe", {"x1", "y1", "x2", "y2"}, {})}
BrowserTools ==
  {Tool("navigate", {"action"}, {}), Tool("menu", {"menu_path"}, {}),
   Tool("goto", {"url"}, {}), Tool("eval", {"script"}, {}),
   Tool("query_dom", {"selector"}, {}), Tool("screenshot_selector", {"selector"}, {})}
  \cup Plain({"reload", "page_text"})
ScenarioTools ==
  {Tool("scenario_run", {"scenario_path"}, {}), Tool("scenario_preflight", {"scenario_path"}, {})}
  \cup Plain({"scenario_fixtures", "help_json"})

Tools == SessionTools \cup InspectTools \cup InputTools \cup WaitTools \cup ReportTools
         \cup GestureTools \cup BrowserTools \cup ScenarioTools

\* The classes of the dispatch table: of all other tools it is "bound".
Creating == {"session_start", "scenario_run", "scenario_preflight"}
Less == {"session_list", "session_metrics", "session_prune", "doctor", "mcp_manifest",
         "help_json", "scenario_fixtures"}

ObservationTools ==
  {"session_list", "session_capabilities", "session_metrics", "inspect", "diff", "find",
   "screenshot", "wait", "wait_reactive", "wait_stable", "debug_bundle", "doctor",
   "mcp_manifest", "help_json", "detect_dialog", "clipboard_read", "scenario_preflight",
   "scenario_fixtures", "query_dom", "page_text", "screenshot_selector"}
ControlTools ==
  {"session_start", "session_stop", "session_resize", "session_prune", "action",
   "mouse_move", "mouse_click", "mouse_drag", "mouse_scroll", "key", "type", "do",
   "clipboard_write", "gesture_pinch", "gesture_two_finger_scroll", "navigate", "menu",
   "goto", "reload", "scenario_run", "eval"}

\* Mutation: what is not a control tool is read-only.
BugReadOnlyHint(name) == name \notin ControlTools

ReadOnlyHint(name) == name \in ObservationTools /\ name \notin ControlTools
DestructiveHint(name) == name \in ControlTools

VARIABLES
  state,  \* of each session: "absent", "live", "dead"
  call,   \* the call under way, or the last one
  record  \* what the operation log got for it, or Nil

callVars == <<state, call, record>>

Cmd(c) == CHOOSE x \in Commands : x.name = c.name
Handler(c) == CHOOSE x \in Tools : x.name = c.name
Served == {t.name : t \in Tools}

CallInit ==
  /\ state = [s \in Sessions |-> "absent"]
  /\ call = [pc |-> "idle"]
  /\ record = Nil

(***************************************************************************)
(* Other processes start sessions; sessions end, and are removed.          *)
(***************************************************************************)
Others ==
  /\ call.pc # "done"
  /\ \E s \in Sessions : \E to \in {"absent", "live", "dead"} :
       /\ state[s] # to /\ ~(state[s] = "dead" /\ to = "live")
       /\ state' = [state EXCEPT ![s] = to]
  /\ UNCHANGED <<call, record>>

\* The faults that a call may have, by what is ever looked at.
FaultsOf(c) ==
  {"none"} \cup Handler(c).checks
  \cup (IF c.needs # {} \/ c.name = "inspect" THEN {"value"} ELSE {})
  \cup (IF c \in ScenarioCommands THEN {"path"} ELSE {})

Begin ==
  /\ call.pc \in {"idle", "done"}
  /\ \E c \in Commands, surface \in {"cli", "mcp"}, sid \in Sessions \cup {Nil} :
     \E fault \in FaultsOf(c), missing \in {{}} \cup {{a} : a \in c.needs} :
       call' = [surface |-> surface, name |-> c.name, sid |-> sid, missing |-> missing,
                fault |-> fault, pc |-> "parse", target |-> Nil, effects |-> {},
                exit |-> 0, why |-> ""]
  /\ record' = Nil
  /\ UNCHANGED state

\* The call has been answered; what is logged may get lost without notice.
Finish(c, exit, why, logged) ==
  /\ call' = [c EXCEPT !.pc = "done", !.exit = exit, !.why = why]
  /\ record' \in {logged, Nil}

Logged(sid, exit) == [session |-> sid, exit |-> exit]

\* Answered before the command's own code is reached: nothing is logged.
Refused(exit, why) == Finish(call, exit, why, Nil) /\ UNCHANGED state

\* Click looks for the arguments and at their types.
CliParse ==
  /\ call.pc = "parse" /\ call.surface = "cli"
  /\ IF call.missing # {} THEN Refused(2, "usage")
     ELSE \/ call' = [call EXCEPT !.pc = "resolve"] /\ UNCHANGED <<state, record>>
          \/ call.fault = "value" /\ Refused(2, "usage")

\* The SDK may hold the arguments against the schema.
McpParse ==
  /\ call.pc = "parse" /\ call.surface = "mcp"
  /\ IF call.name \notin Served THEN Refused(1, "unknown")
     ELSE \/ call' = [call EXCEPT !.pc = "resolve"] /\ UNCHANGED <<state, record>>
          \/ call.missing \cap Required(Cmd(call)) # {} /\ Refused(1, "schema")

Live == {s \in Sessions : state[s] = "live"}

\* The session resolver: the given one, or the newest that is active.
Resolved(sid) ==
  IF sid # Nil THEN {sid} ELSE {s \in Live : \A t \in Live : t <= s}

\* The two coordinates of a click come both or not at all: this usage error is
\* raised past the handler that sets the exit code.
ClickCheck ==
  /\ call.pc = "resolve" /\ call.surface = "cli"
  /\ call.name = "mouse_click" /\ call.fault = "value"
  /\ Finish(call, 2, "usage", Logged(Nil, 0))
  /\ UNCHANGED state

NeedsSession == IF call.surface = "cli" THEN Cmd(call).session = "resolved"
                ELSE call.name \notin Creating \cup Less

Resolve ==
  /\ call.pc = "resolve"
  /\ ~(call.surface = "cli" /\ call.name = "mouse_click" /\ call.fault = "value")
  /\ \/ NeedsSession /\ \E s \in Resolved(call.sid) :
                          call' = [call EXCEPT !.pc = "run", !.target = s]
     \/ ~NeedsSession /\ call' = [call EXCEPT !.pc = "run"]
  /\ UNCHANGED <<state, record>>

\* No session is active.
Unresolved ==
  /\ call.pc = "resolve" /\ NeedsSession /\ Resolved(call.sid) = {}
  /\ Finish(call, 1, "resolve", Logged(Nil, 1))
  /\ UNCHANGED state

\* Mutation: the session is logged as it was given.
BugLoggedSession == call.sid

\* The session that the call's record names, when it is not its own.
LoggedSession == call.target

\* Mutation: the exit code is left at its first value.
BugFail(c, why, sid) == Finish(c, 1, why, Logged(sid, 0))

Fail(c, why, sid) == Finish(c, 1, why, Logged(sid, 1))

\* What the handler of a tool refuses before it calls the use case.  The
\* evidence directory of a scenario it looks at afterwards.
Checks == call.fault \in Handler(call).checks

McpCheck ==
  /\ call.pc = "run" /\ call.surface = "mcp"
  /\ \/ call.missing \cap Handler(call).reads # {} /\ Fail(call, "missing", LoggedSession)
     \/ Checks /\ call.missing = {} /\ Fail(call, "rejected", LoggedSession)
  /\ UNCHANGED state

Passed == call.surface = "mcp" => call.missing \cap Handler(call).reads = {} /\ ~Checks

Scenario == call.name \in {"scenario_run", "scenario_preflight"}

\* The dispatching adapters look at the backend of the session.
Adapter(s) == IF s \in Android THEN "android" ELSE "linux"

Does(s) == {[what |-> w, session |-> s, adapter |-> Adapter(s)] : w \in Cmd(call).does}

\* A use case loads the session, and raises when there is none; it may raise
\* before or after its effect.  Printing what it returned may fail as well.
Run ==
  /\ call.pc = "run" /\ Passed /\ ~Scenario
  /\ call.name \notin {"session_start", "session_stop"}
  /\ LET there == call.target # Nil => state[call.target] # "absent"
         done == [call EXCEPT !.effects = Does(call.target)]
     IN \/ there /\ call.fault # "value" /\ Finish(done, 0, "", Logged(LoggedSession, 0))
        \/ there /\ call.fault # "value" /\ Fail(done, "raised", LoggedSession)
        \/ Fail(call, "raised", LoggedSession)
  /\ UNCHANGED state

\* A start that raises has undone what it did; printing may fail afterwards.
\* The record of the MCP server does not name the session.
RunStart ==
  /\ call.pc = "run" /\ Passed /\ call.name = "session_start"
  /\ \/ \E s \in Sessions :
          LET sid == IF call.surface = "cli" THEN s ELSE Nil
              done == [call EXCEPT !.target = s, !.effects = Does(s)]
          IN /\ state[s] = "absent" /\ call.fault # "value"
             /\ state' = [state EXCEPT ![s] = "live"]
             /\ Finish(done, 0, "", Logged(sid, 0)) \/ Fail(done, "raised", sid)
     \/ Fail(call, "raised", Nil) /\ UNCHANGED state

\* Without an id the use case stops the one session that is active.
Stoppable(sid) == IF sid # Nil THEN {sid} \cap {s \in Sessions : state[s] # "absent"}
                  ELSE {s \in Live : Live = {s}}

RunStop ==
  /\ call.pc = "run" /\ Passed /\ call.name = "session_stop"
  /\ LET given == IF call.surface = "cli" THEN call.sid ELSE call.target
     IN \/ \E s \in Stoppable(given) :
             LET done == [call EXCEPT !.target = s, !.effects = Does(s)]
             IN /\ state' = [state EXCEPT ![s] = "absent"]
                /\ Finish(done, 0, "", Logged(s, 0)) \/ Fail(done, "raised", s)
        \/ Fail(call, "raised", given) /\ UNCHANGED state

\* A scenario starts, drives and stops sessions of its own.
Drives == {[what |-> w, session |-> Nil, adapter |-> a] :
             w \in Cmd(call).does, a \in {"linux", "android"}}

\* A document that is not valid, or a run that has failed, is a failure of the
\* command and an answer of the tool.
RunScenario ==
  /\ call.pc = "run" /\ Passed /\ Scenario
  /\ LET done == [call EXCEPT !.effects = Drives]
         cli == call.surface = "cli"
         Reported(c, exit, logged) == Finish(c, IF cli THEN exit ELSE 0, "reported",
                                             Logged(Nil, IF cli THEN logged ELSE 0))
     IN IF call.fault = "value"
        THEN Reported(call, 2, IF call.name = "scenario_run" THEN 2 ELSE 0)
        ELSE IF ~cli /\ call.fault = "path" /\ call.name = "scenario_run"
        THEN Fail(done, "rejected", Nil)
        ELSE \/ Finish(done, 0, "", Logged(Nil, 0))
             \/ Reported(done, 1, 1)
             \/ Fail(done, "raised", Nil) \/ Fail(call, "raised", Nil)
  /\ UNCHANGED state

\* Ctrl-C passes the handler that sets the exit code: the record says 0, and
\* Click ends the command with 1.
Interrupt(c, sid) == Finish(c, 1, "interrupted", Logged(sid, 0))

Interrupted ==
  /\ call.pc \in {"resolve", "run"} /\ call.surface = "cli"
  /\ Interrupt(call, LoggedSession)
  /\ UNCHANGED state

\* It may come when the use case has had its effect; the record of a start or
\* a stop may not name the session yet.
InterruptedRun ==
  /\ call.pc = "run" /\ call.surface = "cli" /\ call.fault # "value"
  /\ \/ /\ call.name \notin {"session_start", "session_stop"}
        /\ call.target # Nil => state[call.target] # "absent"
        /\ Interrupt([call EXCEPT !.effects = IF Scenario THEN Drives ELSE Does(call.target)],
                     LoggedSession)
        /\ UNCHANGED state
     \/ \E s \in Sessions, sid \in Sessions \cup {Nil} :
          /\ \/ /\ call.name = "session_start" /\ state[s] = "absent"
                /\ state' = [state EXCEPT ![s] = "live"]
             \/ /\ call.name = "session_stop" /\ s \in Stoppable(call.sid)
                /\ state' = [state EXCEPT ![s] = "absent"]
          /\ sid \in {s, Nil}
          /\ Interrupt([call EXCEPT !.target = s, !.effects = Does(s)], sid)

CallNext ==
  \/ Others \/ Begin \/ CliParse \/ McpParse \/ ClickCheck \/ Resolve \/ Unresolved
  \/ McpCheck \/ Run \/ RunStart \/ RunStop \/ RunScenario
  \/ Interrupted \/ InterruptedRun

CallSpec == CallInit /\ [][CallNext]_callVars

-----------------------------------------------------------------------------
Done == call.pc = "done"

SurfacesTypeOK ==
  /\ state \in [Sessions -> {"absent", "live", "dead"}]
  /\ record = Nil \/ record \in [session : Sessions \cup {Nil}, exit : 0..2]
  /\ call.pc \in {"idle", "parse", "resolve", "run", "done"}

\* What a call does it does to one session, the one it was given when it was
\* given one, through the adapters of that session's backend, and its record
\* names that session: whatever sessions come and go between its resolution
\* and its use case.  Left out: scenarios, whose sessions are their own,
\* session_start over MCP, whose record names none, and a start or a stop
\* that Ctrl-C ends before it has noted its session.
EffectsAreNamed ==
  Done /\ record # Nil /\ ~Scenario /\ ~(call.surface = "mcp" /\ call.name = "session_start")
  /\ ~(call.why = "interrupted" /\ call.name \in {"session_start", "session_stop"}) =>
    \A e \in call.effects :
      /\ e.session = record.session
      /\ e.adapter = "android" <=> e.session \in Android
      /\ call.sid # Nil /\ Cmd(call).session \in {"resolved", "raw"} => e.session = call.sid

\* The record of a call says that it failed exactly when its caller was told
\* so.  Left out: what bypasses the handler of the command line, which is Ctrl-C
\* and two usage errors, of a click with one coordinate and of an invalid
\* scenario document.
FailureIsRecorded ==
  Done /\ record # Nil
  /\ ~(call.surface = "cli" /\ call.exit = 2 /\ call.name \in {"mouse_click", "scenario_preflight"})
  /\ call.why # "interrupted"
    => (record.exit = 0 <=> call.exit = 0)

\* A call that is refused for what it asks has done nothing: not to the GUI,
\* not to a session, not to a file.  Left out: the evidence directory of a
\* scenario over MCP, which is looked at when the scenario has been run.
RefusedDoesNothing ==
  Done /\ \/ call.missing # {} \/ call.fault = "value"
          \/ call.surface = "mcp" /\ call.fault \in Handler(call).checks
    => call.effects = {}

\* A tool announced as read-only never drives the GUI or changes a session;
\* one that does, and is classified at all, is announced as destructive.
HintsAreTrue ==
  Done /\ call.surface = "mcp" /\ (\E e \in call.effects : e.what # "file") =>
    /\ ~ReadOnlyHint(call.name)
    /\ call.name \in ObservationTools \cup ControlTools => DestructiveHint(call.name)

\* Every tool that is listed is served, and a call that has all that its schema
\* requires never fails for an argument it does not have: the schema comes from
\* the declarations of the command line, the handlers are written apart.
ListedIsServed ==
  Done /\ call.surface = "mcp" /\ call.missing \cap Required(Cmd(call)) = {} =>
    call.why \notin {"unknown", "missing"}

(***************************************************************************)
(* Why.  Before its end a call has done nothing; the session it runs on is *)
(* the one it was given, if it was given one and needs one.  With the      *)
(* three properties this is inductive.                                     *)
(***************************************************************************)
CallType ==
  /\ call = [surface |-> call.surface, name |-> call.name, sid |-> call.sid,
             missing |-> call.missing, fault |-> call.fault, pc |-> call.pc,
             target |-> call.target, effects |-> call.effects, exit |-> call.exit,
             why |-> call.why]
  /\ call.surface \in {"cli", "mcp"} /\ call.name \in Listed
  /\ call.pc \in {"parse", "resolve", "run", "done"}
  /\ call.sid \in Sessions \cup {Nil} /\ call.target \in Sessions \cup {Nil}

CallInvariant ==
  /\ call.pc = "idle" \/ CallType
  /\ call.pc \in {"parse", "resolve", "run"} => call.effects = {}
  /\ call.pc = "run" => IF NeedsSession THEN call.sid # Nil => call.target = call.sid
                        ELSE call.target = Nil
  /\ call.pc \in {"parse", "resolve"} => call.target = Nil
  /\ EffectsAreNamed
  /\ FailureIsRecorded
  /\ HintsAreTrue
=============================================================================
