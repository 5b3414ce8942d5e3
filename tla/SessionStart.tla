---------------------------- MODULE SessionStart ----------------------------
(***************************************************************************)
(* `aieyes session start`: one launcher process per session, running       *)
(* SessionStartUseCase.execute against the host.  Launchers of different   *)
(* sessions run concurrently (each CLI call is a process of its own) and   *)
(* share the host's X display numbers; every adapter call of a launcher    *)
(* is one action, so other launchers, crashes and X servers that are still *)
(* booting interleave between any two of them.                             *)
(***************************************************************************)
EXTENDS Naturals, FiniteSets

CONSTANTS Sessions,     \* session ids; a session has exactly one launcher
          Requests,     \* the kinds of start that callers ask for, a subset of Modes
          MaxDisplay,   \* displays 1..MaxDisplay exist (the code probes 1..99)
          Faults,       \* "slow_xvfb": an Xvfb may still be booting when the bus is up
                        \* (the code never waits for the display, start_bus only takes
                        \* 1.5 s); "crash": processes may end by themselves
          Privileged,   \* sessions whose app runs as another user: signals to it fail
          Nobody,       \* the display is free: no lock file, no socket
          Foreign       \* a lock file of a server that is no session's, or a stale one

ASSUME DisplayAssumption == MaxDisplay \in Nat
ASSUME FaultsAssumption == Faults \subseteq {"slow_xvfb", "crash"}
ASSUME PrivilegedAssumption == Privileged \subseteq Sessions
ASSUME HolderAssumption == Nobody \notin Sessions /\ Foreign \notin Sessions

Displays == 1 .. MaxDisplay

(***************************************************************************)
(* The arguments of a start that its control flow depends on: a request    *)
(* that is rejected before anything runs ("rejected": marionette for an    *)
(* app that is not Firefox, Android without a serial), a Linux session     *)
(* without marionette, with marionette on an aiyes-owned profile or on the *)
(* caller's own profile, and an Android session.                           *)
(***************************************************************************)
Modes == {"rejected", "plain", "marionette", "own_profile", "android"}

ASSUME RequestsAssumption == Requests \subseteq Modes

Processes == {"xvfb", "bus", "app"}

VARIABLES
  \* the launcher's locals
  pc,        \* the next adapter call of each launcher
  mode,      \* its arguments
  display,   \* display_num, 0 until allocated
  handle,    \* which of xvfb_pid, atspi_bus_pid, app_pid are not None
  \* the host
  alive,     \* the processes of a session that exist on the host
  holder,    \* who holds the lock and socket files of each display
  screen,    \* whose X server a session's app is connected to
  profile,   \* the aiyes-owned temp profile directory exists
  file       \* session.json: "none", "empty" (truncated) or "saved"

locals == <<mode, display, handle>>
host == <<alive, holder, screen, profile, file>>
vars == <<pc, locals, host>>

Ended == {"started", "refused", "raised", "killed"}
Running == {"allocate", "provision", "start_xvfb", "start_bus", "start_app",
            "launch_adb", "check_app", "check_device", "save", "write",
            "release_app", "release_bus", "release_xvfb", "release_profile"}

TypeOK ==
  /\ pc \in [Sessions -> {"idle"} \cup Running \cup Ended]
  /\ mode \in [Sessions -> Modes]
  /\ display \in [Sessions -> 0 .. MaxDisplay]
  /\ handle \in [Sessions -> SUBSET Processes]
  /\ alive \in [Sessions -> SUBSET Processes]
  /\ holder \in [Displays -> Sessions \cup {Nobody, Foreign}]
  /\ screen \in [Sessions -> Sessions \cup {Nobody}]
  /\ profile \in [Sessions -> BOOLEAN]
  /\ file \in [Sessions -> {"none", "empty", "saved"}]

Init ==
  /\ pc = [s \in Sessions |-> "idle"]
  /\ mode = [s \in Sessions |-> "rejected"]
  /\ display = [s \in Sessions |-> 0]
  /\ handle = [s \in Sessions |-> {}]
  /\ alive = [s \in Sessions |-> {}]
  /\ holder \in [Displays -> {Nobody, Foreign}]
  /\ screen = [s \in Sessions |-> Nobody]
  /\ profile = [s \in Sessions |-> FALSE]
  /\ file = [s \in Sessions |-> "none"]

Goto(s, p) == pc' = [pc EXCEPT ![s] = p]

(***************************************************************************)
(* Acquisition.                                                            *)
(***************************************************************************)
Begin(s) ==
  /\ pc[s] = "idle"
  /\ \E m \in Requests :
       /\ mode' = [mode EXCEPT ![s] = m]
       /\ Goto(s, CASE m = "rejected" -> "refused"
                    [] m = "android"  -> "launch_adb"
                    [] OTHER          -> "allocate")
  /\ UNCHANGED <<display, handle, host>>

\* The allocator reports the first display without lock file and socket.  It
\* reserves nothing: until an Xvfb binds it, the next probe reports it again.
IsFirstFree(d) == /\ holder[d] = Nobody
                  /\ \A e \in Displays : e < d => holder[e] # Nobody

Allocate(s) ==
  /\ pc[s] = "allocate"
  /\ \E d \in Displays :
       /\ IsFirstFree(d)
       /\ display' = [display EXCEPT ![s] = d]
  /\ Goto(s, IF mode[s] = "plain" THEN "start_xvfb" ELSE "provision")
  /\ UNCHANGED <<mode, handle, host>>

AllocateFails(s) ==
  /\ pc[s] = "allocate"
  /\ \A d \in Displays : holder[d] # Nobody
  /\ Goto(s, "raised")
  /\ UNCHANGED <<locals, host>>

Provision(s) ==
  /\ pc[s] = "provision"
  /\ profile' = [profile EXCEPT ![s] = (mode[s] = "marionette")]
  /\ Goto(s, "start_xvfb")
  /\ UNCHANGED <<locals, alive, holder, screen, file>>

\* makedirs or the write of user.js fails.  The guarded region starts later,
\* so the exception leaves whatever was made of the profile directory.
ProvisionFails(s) ==
  /\ pc[s] = "provision"
  /\ \E made \in {FALSE, mode[s] = "marionette"} :
       profile' = [profile EXCEPT ![s] = made]
  /\ Goto(s, "raised")
  /\ UNCHANGED <<locals, alive, holder, screen, file>>

\* A child process of the launcher comes up and its pid is remembered.
Spawn(s, p) ==
  /\ alive' = [alive EXCEPT ![s] = @ \cup {p}]
  /\ handle' = [handle EXCEPT ![s] = @ \cup {p}]
  /\ UNCHANGED <<mode, display, holder, screen, profile, file>>

\* Xvfb is spawned and polled once; it has not bound its display yet.
StartXvfb(s) == /\ pc[s] = "start_xvfb"
                /\ Spawn(s, "xvfb")
                /\ Goto(s, "start_bus")

\* The bus may come back with an unusable address: acquired, but no session.
StartBus(s) == /\ pc[s] = "start_bus"
               /\ "slow_xvfb" \notin Faults /\ "xvfb" \in alive[s] => holder[display[s]] = s
               /\ Spawn(s, "bus")
               /\ \/ Goto(s, "start_app")
                  \/ Goto(s, "release_app")

StartApp(s) == /\ pc[s] = "start_app"
               /\ Spawn(s, "app")
               /\ Goto(s, "check_app")

LaunchAdb(s) == /\ pc[s] = "launch_adb"
                /\ Spawn(s, "app")
                /\ Goto(s, "check_device")

\* The adapter raised; what it had started itself it has also reaped.
SpawnFails(s) ==
  /\ pc[s] \in {"start_xvfb", "start_bus", "start_app", "launch_adb"}
  /\ Goto(s, IF pc[s] = "launch_adb" THEN "raised" ELSE "release_app")
  /\ UNCHANGED <<locals, host>>

\* Mutation: the launcher waits for the app instead of giving up on a dead one.
BugCheckAppWaits(s) ==
  /\ pc[s] = "check_app"
  /\ "app" \in alive[s]
  /\ Goto(s, "save")
  /\ UNCHANGED <<locals, host>>

CheckApp(s) ==
  /\ pc[s] = "check_app"
  /\ Goto(s, IF "app" \in alive[s] THEN "save" ELSE "release_app")
  /\ UNCHANGED <<locals, host>>

\* Mutation: a failed device check reports the error without the finally block.
BugCheckDeviceReturns(s) ==
  /\ pc[s] = "check_device"
  /\ \/ Goto(s, "save")
     \/ Goto(s, "refused")
  /\ UNCHANGED <<locals, host>>

\* The device-side probe answers running (or is not applicable), or answers
\* not running, or fails.
CheckDevice(s) ==
  /\ pc[s] = "check_device"
  /\ \/ Goto(s, "save")
     \/ Goto(s, "release_app")
  /\ UNCHANGED <<locals, host>>

(***************************************************************************)
(* Saving is not atomic: session.json is truncated, then written.          *)
(***************************************************************************)
SaveOpen(s) ==
  /\ pc[s] = "save"
  /\ file' = [file EXCEPT ![s] = "empty"]
  /\ Goto(s, "write")
  /\ UNCHANGED <<locals, alive, holder, screen, profile>>

SaveWrite(s) ==
  /\ pc[s] = "write"
  /\ file' = [file EXCEPT ![s] = "saved"]
  /\ Goto(s, "started")
  /\ UNCHANGED <<locals, alive, holder, screen, profile>>

SaveFails(s) ==
  /\ pc[s] \in {"save", "write"}
  /\ Goto(s, "release_app")
  /\ UNCHANGED <<locals, host>>

(***************************************************************************)
(* Release: the finally block of a start that did not commit.              *)
(***************************************************************************)
\* Process p of session s is gone; an Xvfb that ends in order removes its
\* files, one that is killed leaves the lock behind.
Gone(s, p) ==
  /\ alive' = [alive EXCEPT ![s] = @ \ {p}]
  /\ \E left \in {Nobody, Foreign} :
       holder' = [d \in Displays |->
                    IF p = "xvfb" /\ holder[d] = s THEN left ELSE holder[d]]
  /\ screen' = [screen EXCEPT ![s] = IF p = "app" THEN Nobody ELSE @]

\* Mutation: the display is given back by its number, whoever holds it.
BugReleaseByNumber(s, p) ==
  IF p \in handle[s]
    THEN /\ alive' = [alive EXCEPT ![s] = @ \ {p}]
         /\ holder' = [d \in Displays |->
                         IF p = "xvfb" /\ d = display[s] THEN Nobody ELSE holder[d]]
         /\ screen' = [screen EXCEPT ![s] = IF p = "app" THEN Nobody ELSE @]
         /\ handle' = [handle EXCEPT ![s] = @ \ {p}]
    ELSE UNCHANGED <<alive, holder, screen, handle>>

Release(s, p) ==
  IF p \in handle[s]
    THEN /\ Gone(s, p)
         /\ handle' = [handle EXCEPT ![s] = @ \ {p}]
    ELSE UNCHANGED <<alive, holder, screen, handle>>

\* Stopping an app of another user fails; the failure is swallowed.
ReleaseApp(s) ==
  /\ pc[s] = "release_app"
  /\ IF s \in Privileged /\ "app" \in alive[s]
       THEN UNCHANGED <<alive, holder, screen, handle>>
       ELSE Release(s, "app")
  /\ Goto(s, IF mode[s] = "android" THEN "refused" ELSE "release_bus")
  /\ UNCHANGED <<mode, display, profile, file>>

ReleaseBus(s) ==
  /\ pc[s] = "release_bus"
  /\ Release(s, "bus")
  /\ Goto(s, "release_xvfb")
  /\ UNCHANGED <<mode, display, profile, file>>

ReleaseXvfb(s) ==
  /\ pc[s] = "release_xvfb"
  /\ Release(s, "xvfb")
  /\ Goto(s, "release_profile")
  /\ UNCHANGED <<mode, display, profile, file>>

\* Mutation: the refused start keeps its temp profile.
BugProfileKept(s) ==
  /\ pc[s] = "release_profile"
  /\ Goto(s, "refused")
  /\ UNCHANGED <<locals, host>>

\* cleanup removes only the aiyes-owned directory, never the caller's profile.
ReleaseProfile(s) ==
  /\ pc[s] = "release_profile"
  /\ profile' = [profile EXCEPT ![s] = FALSE]
  /\ Goto(s, "refused")
  /\ UNCHANGED <<locals, alive, holder, screen, file>>

(***************************************************************************)
(* The host.                                                               *)
(***************************************************************************)
\* The launcher itself is killed: no finally block runs.
Killed(s) ==
  /\ pc[s] \in Running
  /\ Goto(s, "killed")
  /\ UNCHANGED <<locals, host>>

XvfbBinds(s) ==
  /\ "xvfb" \in alive[s]
  /\ display[s] \in Displays
  /\ holder[display[s]] = Nobody
  /\ holder' = [holder EXCEPT ![display[s]] = s]
  /\ UNCHANGED <<pc, locals, alive, screen, profile, file>>

\* Two servers for one display: the second finds the lock and exits.
XvfbLosesRace(s) ==
  /\ "xvfb" \in alive[s]
  /\ display[s] \in Displays
  /\ holder[display[s]] \notin {Nobody, s}
  /\ alive' = [alive EXCEPT ![s] = @ \ {"xvfb"}]
  /\ UNCHANGED <<pc, locals, holder, screen, profile, file>>

\* A Linux app opens DISPLAY: it gets whichever server listens there.
AppConnects(s) ==
  /\ "app" \in alive[s]
  /\ screen[s] = Nobody
  /\ display[s] \in Displays
  /\ holder[display[s]] \in Sessions
  /\ screen' = [screen EXCEPT ![s] = holder[display[s]]]
  /\ UNCHANGED <<pc, locals, alive, holder, profile, file>>

\* Any process of a session may end by itself at any time.
Dies(s) ==
  /\ "crash" \in Faults
  /\ \E p \in alive[s] : Gone(s, p)
  /\ UNCHANGED <<pc, locals, profile, file>>

-----------------------------------------------------------------------------
Launcher(s) ==
  \/ Allocate(s) \/ AllocateFails(s)
  \/ Provision(s) \/ ProvisionFails(s)
  \/ StartXvfb(s) \/ StartBus(s) \/ StartApp(s) \/ LaunchAdb(s) \/ SpawnFails(s)
  \/ CheckApp(s) \/ CheckDevice(s)
  \/ SaveOpen(s) \/ SaveWrite(s) \/ SaveFails(s)
  \/ ReleaseApp(s) \/ ReleaseBus(s) \/ ReleaseXvfb(s) \/ ReleaseProfile(s)

Host(s) == Killed(s) \/ XvfbBinds(s) \/ XvfbLosesRace(s) \/ AppConnects(s) \/ Dies(s)

Next == \E s \in Sessions : Begin(s) \/ Launcher(s) \/ Host(s)

\* A launcher is a sequential program whose adapter calls return.
Fairness == \A s \in Sessions : WF_vars(Launcher(s))

Spec == Init /\ [][Next]_vars
FairSpec == Spec /\ Fairness

-----------------------------------------------------------------------------
(***************************************************************************)
(* Properties.                                                             *)
(***************************************************************************)

\* What a committed session of each kind owns.
Needs(m) == CASE m = "rejected"   -> {}
              [] m = "android"    -> {"app"}
              [] m = "marionette" -> Processes \cup {"profile"}
              [] OTHER            -> Processes

\* What the launcher, and after its commit the session, owns.
Owned(s) == handle[s] \cup (IF profile[s] THEN {"profile"} ELSE {})

\* Processes the host does not let the launcher signal.
Unstoppable(s) == IF s \in Privileged THEN {"app"} ELSE {}

(***************************************************************************)
(* A refused start leaves nothing on the host: no process (except an app   *)
(* it may not signal), no profile, and no session.json that loads, however *)
(* far it had come and whatever died meanwhile.                            *)
(***************************************************************************)
AllOrNothing ==
  \A s \in Sessions : pc[s] = "refused" =>
     /\ alive[s] \subseteq Unstoppable(s)
     /\ ~ profile[s]
     /\ file[s] # "saved"

(***************************************************************************)
(* A committed start has acquired everything its kind of session needs,    *)
(* has given none of it back, and its session.json loads.                  *)
(***************************************************************************)
StartedIsComplete ==
  \A s \in Sessions : pc[s] = "started" =>
     /\ Owned(s) = Needs(mode[s])
     /\ file[s] = "saved"

(***************************************************************************)
(* No process of a session outlives its launcher unless session.json lets  *)
(* `session list` and `session stop` find it.  Only a killed launcher (no  *)
(* finally block) and an app that may not be signalled escape this.        *)
(***************************************************************************)
NothingInvisible ==
  \A s \in Sessions :
     \/ pc[s] \in Running \cup {"killed"}
     \/ file[s] = "saved"
     \/ alive[s] \subseteq Unstoppable(s)

(***************************************************************************)
(* A display changes hands only when the server that held it ends: a       *)
(* launcher that lost the race for a number and cleans up never takes the  *)
(* winner's display away.                                                  *)
(***************************************************************************)
DisplaysChangeHandsInOrder ==
  [][\A d \in Displays, t \in Sessions :
       holder[d] = t /\ holder'[d] # t =>
         "xvfb" \in alive[t] /\ "xvfb" \notin alive'[t]]_vars

(***************************************************************************)
(* Release runs in the reverse order of acquisition: the bus is given back *)
(* only after the app that uses it, Xvfb only after the bus and the app,   *)
(* the profile only after the Firefox that has it open.                    *)
(***************************************************************************)
ReleasedInReverse ==
  [][\A s \in Sessions :
       LET given == Owned(s) \ Owned(s)'
           kept  == Owned(s)' \ Unstoppable(s)
       IN  /\ "bus" \in given => "app" \notin kept
           /\ "xvfb" \in given => kept \cap {"app", "bus"} = {}
           /\ "profile" \in given => kept \cap Processes = {}]_vars

(***************************************************************************)
(* Every start that was accepted ends: it commits, or its failure reaches  *)
(* the caller, or its launcher is killed.                                  *)
(***************************************************************************)
StartEnds == \A s \in Sessions : pc[s] \in Running ~> pc[s] \in Ended

(***************************************************************************)
(* The inductive invariant behind the properties above: at every point of  *)
(* the launcher's program, which pids it holds, which mode brought it      *)
(* there, and what it has left on the host.                                *)
(***************************************************************************)
ModeAt(s) ==
  /\ pc[s] \in {"allocate", "start_xvfb", "start_bus", "start_app", "check_app",
               "release_bus", "release_xvfb", "release_profile"}
       => mode[s] \in {"plain", "marionette", "own_profile"}
  /\ pc[s] = "provision" => mode[s] \in {"marionette", "own_profile"}
  /\ pc[s] \in {"launch_adb", "check_device"} => mode[s] = "android"
  /\ pc[s] \in {"save", "write", "started", "release_app"} => mode[s] # "rejected"

HandleAt(s) ==
  /\ pc[s] \in {"idle", "allocate", "provision", "start_xvfb", "launch_adb"} => handle[s] = {}
  /\ pc[s] = "start_bus" => handle[s] = {"xvfb"}
  /\ pc[s] = "start_app" => handle[s] = {"xvfb", "bus"}
  /\ pc[s] = "check_app" => handle[s] = Processes
  /\ pc[s] = "check_device" => handle[s] = {"app"}
  /\ pc[s] \in {"save", "write", "started"} => handle[s] = Needs(mode[s]) \cap Processes
  /\ pc[s] = "release_app" /\ mode[s] = "android" => handle[s] \subseteq {"app"}
  /\ pc[s] = "release_bus" => handle[s] \cap {"app"} \subseteq Unstoppable(s)
  /\ pc[s] = "release_xvfb" => handle[s] \subseteq {"xvfb"} \cup Unstoppable(s)
  /\ pc[s] \in {"release_profile", "refused", "raised"} => handle[s] \subseteq Unstoppable(s)

ProfileAt(s) ==
  /\ profile[s] => mode[s] = "marionette"
  /\ pc[s] \in {"idle", "allocate", "provision", "refused"} => ~ profile[s]
  /\ pc[s] \in {"start_xvfb", "start_bus", "start_app", "check_app", "save", "write", "started"}
       => (profile[s] <=> mode[s] = "marionette")

OnHost(s) ==
  /\ alive[s] \subseteq handle[s]
  /\ file[s] = "saved" <=> pc[s] = "started"
  /\ \A d \in Displays : holder[d] = s => d = display[s] /\ "xvfb" \in alive[s]

StartInvariant ==
  /\ TypeOK
  /\ \A s \in Sessions : ModeAt(s) /\ HandleAt(s) /\ ProfileAt(s) /\ OnHost(s)

(***************************************************************************)
(* The temp profile is dropped whenever the start did not commit: "Failure-*)
(* atomic: drop any aiyes-owned temp profile we created"                   *)
(* (session_start.py:310).                                                 *)
(***************************************************************************)
NoProfileLeak ==
  \A s \in Sessions : pc[s] \in {"refused", "raised"} => ~ profile[s]

(***************************************************************************)
(* Two sessions that are up at the same time never share a display number, *)
(* nor therefore a marionette port: "XDisplayAllocatorAdapter hands out a  *)
(* display_num unique per concurrent session, so 2828+display_num is       *)
(* distinct per session for free" (session_start.py:68).                   *)
(***************************************************************************)
DistinctDisplays ==
  \A s, t \in Sessions :
     /\ pc[s] = "started" /\ "app" \in alive[s]
     /\ pc[t] = "started" /\ "app" \in alive[t]
     /\ mode[s] = "marionette" /\ mode[t] = "marionette"
     /\ display[s] = display[t]
     => s = t

(***************************************************************************)
(* An app of a session only ever draws on that session's own X server:     *)
(* "Launch an application in a new isolated session" (docs/manual.md:110). *)
(***************************************************************************)
OwnScreen == \A s \in Sessions : screen[s] \in {Nobody, s}

(***************************************************************************)
(* Refinement: the launcher's steps implement the promise of AtomicStart.  *)
(***************************************************************************)
Phase(s) == CASE pc[s] = "idle"                  -> "idle"
              [] pc[s] \in Running               -> "running"
              [] pc[s] = "started"               -> "started"
              [] pc[s] = "refused"               -> "refused"
              [] pc[s] \in {"raised", "killed"}  -> "abandoned"

Promise == INSTANCE AtomicStart WITH
  Resources <- Processes \cup {"profile"},
  Stubborn  <- [s \in Sessions |-> Unstoppable(s)],
  phase     <- [s \in Sessions |-> Phase(s)],
  need      <- [s \in Sessions |-> IF pc[s] = "idle" THEN {} ELSE Needs(mode[s])],
  held      <- [s \in Sessions |-> Owned(s)]

KeepsPromise == Promise!Spec
=============================================================================
