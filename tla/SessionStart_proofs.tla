------------------------ MODULE SessionStart_proofs ------------------------
(***************************************************************************)
(* What `session start` guarantees for every number of launchers and       *)
(* displays, every mixture of requests and every fault the model allows.   *)
(***************************************************************************)
EXTENDS SessionStart, TLAPS

(***************************************************************************)
(* Type correctness, with one step per action of Next.                     *)
(***************************************************************************)
LEMMA InitType == Init => TypeOK
  BY DisplayAssumption DEF Init, TypeOK, Displays, Modes, Processes

LEMMA NextType == TypeOK /\ [Next]_vars => TypeOK'
<1> SUFFICES ASSUME TypeOK, [Next]_vars PROVE TypeOK'
  OBVIOUS
<1> USE DEF TypeOK, Goto, host, locals, Running, Ended
<1>1. ASSUME NEW s \in Sessions, Begin(s) PROVE TypeOK'
  BY <1>1, RequestsAssumption DEF Begin, Modes
<1>2. ASSUME NEW s \in Sessions, Launcher(s) PROVE TypeOK'
  <2>1. CASE Allocate(s)
    BY <2>1, DisplayAssumption DEF Allocate, Displays
  <2>2. CASE AllocateFails(s)
    BY <2>2 DEF AllocateFails
  <2>3. CASE Provision(s)
    BY <2>3 DEF Provision
  <2>4. CASE ProvisionFails(s)
    BY <2>4 DEF ProvisionFails
  <2>5. CASE StartXvfb(s)
    BY <2>5 DEF StartXvfb, Spawn, Processes
  <2>6. CASE StartBus(s)
    BY <2>6 DEF StartBus, Spawn, Processes
  <2>7. CASE StartApp(s)
    BY <2>7 DEF StartApp, Spawn, Processes
  <2>8. CASE LaunchAdb(s)
    BY <2>8 DEF LaunchAdb, Spawn, Processes
  <2>9. CASE SpawnFails(s)
    BY <2>9 DEF SpawnFails
  <2>10. CASE CheckApp(s)
    BY <2>10 DEF CheckApp
  <2>11. CASE CheckDevice(s)
    BY <2>11 DEF CheckDevice
  <2>12. CASE SaveOpen(s)
    BY <2>12 DEF SaveOpen
  <2>13. CASE SaveWrite(s)
    BY <2>13 DEF SaveWrite
  <2>14. CASE SaveFails(s)
    BY <2>14 DEF SaveFails
  <2>15. CASE ReleaseApp(s)
    BY <2>15 DEF ReleaseApp, Release, Gone
  <2>16. CASE ReleaseBus(s)
    BY <2>16 DEF ReleaseBus, Release, Gone
  <2>17. CASE ReleaseXvfb(s)
    BY <2>17 DEF ReleaseXvfb, Release, Gone
  <2>18. CASE ReleaseProfile(s)
    BY <2>18 DEF ReleaseProfile
  <2> QED
    BY <1>2, <2>1, <2>2, <2>3, <2>4, <2>5, <2>6, <2>7, <2>8, <2>9, <2>10, <2>11,
       <2>12, <2>13, <2>14, <2>15, <2>16, <2>17, <2>18 DEF Launcher
<1>3. ASSUME NEW s \in Sessions, Host(s) PROVE TypeOK'
  <2>1. CASE Killed(s)
    BY <2>1 DEF Killed
  <2>2. CASE XvfbBinds(s)
    BY <2>2 DEF XvfbBinds
  <2>3. CASE XvfbLosesRace(s)
    BY <2>3 DEF XvfbLosesRace
  <2>4. CASE AppConnects(s)
    BY <2>4 DEF AppConnects
  <2>5. CASE Dies(s)
    BY <2>5 DEF Dies, Gone
  <2> QED
    BY <1>3, <2>1, <2>2, <2>3, <2>4, <2>5 DEF Host
<1>4. CASE UNCHANGED vars
  BY <1>4 DEF vars
<1> QED
  BY <1>1, <1>2, <1>3, <1>4 DEF Next

(***************************************************************************)
(* The launcher's state stays inside its types: session_start.py keeps no  *)
(* pid, display or file state that the model does not name.                *)
(***************************************************************************)
THEOREM TypeCorrect == Spec => []TypeOK
  BY InitType, NextType, PTL DEF Spec

-----------------------------------------------------------------------------
(***************************************************************************)
(* The inductive invariant.  A step of one launcher or of one session's    *)
(* processes leaves every other session as it was.                         *)
(***************************************************************************)
Good(s) == ModeAt(s) /\ HandleAt(s) /\ ProfileAt(s) /\ OnHost(s)

Untouched(t) ==
  /\ pc'[t] = pc[t] /\ mode'[t] = mode[t] /\ display'[t] = display[t]
  /\ handle'[t] = handle[t]
  /\ alive'[t] = alive[t] /\ profile'[t] = profile[t] /\ file'[t] = file[t]
  /\ \A d \in Displays : holder'[d] = t => holder[d] = t

LEMMA UntouchedStaysGood ==
  ASSUME NEW t \in Sessions, Good(t), Untouched(t)
  PROVE  Good(t)'
  BY DEF Good, Untouched, ModeAt, HandleAt, ProfileAt, OnHost, Needs, Unstoppable

LEMMA OthersUntouched ==
  ASSUME TypeOK, NEW s \in Sessions, Begin(s) \/ Launcher(s) \/ Host(s),
         NEW t \in Sessions \ {s}
  PROVE  Untouched(t)
<1> USE HolderAssumption DEF TypeOK, Goto, host, locals, Untouched
<1>1. CASE Begin(s)
  BY <1>1 DEF Begin
<1>2. CASE Launcher(s)
  <2>1. CASE Allocate(s) \/ AllocateFails(s) \/ Provision(s) \/ ProvisionFails(s)
    BY <2>1 DEF Allocate, AllocateFails, Provision, ProvisionFails
  <2>2. CASE StartXvfb(s) \/ StartBus(s) \/ StartApp(s) \/ LaunchAdb(s) \/ SpawnFails(s)
    BY <2>2 DEF StartXvfb, StartBus, StartApp, LaunchAdb, SpawnFails, Spawn
  <2>3. CASE CheckApp(s) \/ CheckDevice(s) \/ SaveOpen(s) \/ SaveWrite(s) \/ SaveFails(s)
    BY <2>3 DEF CheckApp, CheckDevice, SaveOpen, SaveWrite, SaveFails
  <2>4. CASE ReleaseApp(s)
    BY <2>4 DEF ReleaseApp, Release, Gone
  <2>5. CASE ReleaseBus(s)
    BY <2>5 DEF ReleaseBus, Release, Gone
  <2>6. CASE ReleaseXvfb(s)
    BY <2>6 DEF ReleaseXvfb, Release, Gone
  <2>7. CASE ReleaseProfile(s)
    BY <2>7 DEF ReleaseProfile
  <2> QED
    BY <1>2, <2>1, <2>2, <2>3, <2>4, <2>5, <2>6, <2>7 DEF Launcher
<1>3. CASE Host(s)
  <2>1. CASE Killed(s) \/ XvfbBinds(s) \/ XvfbLosesRace(s) \/ AppConnects(s)
    BY <2>1 DEF Killed, XvfbBinds, XvfbLosesRace, AppConnects
  <2>2. CASE Dies(s)
    BY <2>2 DEF Dies, Gone
  <2> QED
    BY <1>3, <2>1, <2>2 DEF Host
<1> QED
  BY <1>1, <1>2, <1>3

LEMMA ActorStaysGood ==
  ASSUME TypeOK, NEW s \in Sessions, Good(s), Begin(s) \/ Launcher(s) \/ Host(s)
  PROVE  Good(s)'
<1> USE HolderAssumption DEF TypeOK, Goto, host, locals, Good, ModeAt, HandleAt, ProfileAt, OnHost,
        Needs, Processes, Unstoppable
<1>1. CASE Begin(s)
  BY <1>1, RequestsAssumption DEF Begin, Modes
<1>2. CASE Launcher(s)
  <2>1. CASE Allocate(s)
    BY <2>1 DEF Allocate, Modes
  <2>2. CASE AllocateFails(s)
    BY <2>2 DEF AllocateFails
  <2>3. CASE Provision(s)
    <3>1. /\ mode'[s] = mode[s] /\ handle'[s] = handle[s] /\ alive'[s] = alive[s]
          /\ file'[s] = file[s] /\ holder' = holder /\ display' = display
          /\ pc'[s] = "start_xvfb"
      BY <2>3 DEF Provision
    <3>2. profile'[s] <=> mode[s] = "marionette"
      BY <2>3, Zenon DEF Provision
    <3>3. /\ pc[s] = "provision" /\ mode[s] \in {"marionette", "own_profile"}
          /\ handle[s] = {} /\ file[s] # "saved"
      BY <2>3 DEF Provision
    <3>4. ModeAt(s)' /\ HandleAt(s)'
      BY <3>1, <3>3
    <3>5. ProfileAt(s)'
      <4>1. /\ mode'[s] = mode[s]
            /\ pc'[s] \notin {"idle", "allocate", "provision", "refused"}
        BY <3>1
      <4> QED
        BY <4>1, <3>2, Zenon DEF ProfileAt
    <3>6. OnHost(s)'
      BY <3>1, <3>3
    <3> QED
      BY <3>4, <3>5, <3>6 DEF Good
  <2>4. CASE ProvisionFails(s)
    BY <2>4 DEF ProvisionFails
  <2>5. CASE StartXvfb(s)
    BY <2>5 DEF StartXvfb, Spawn
  <2>6. CASE StartBus(s)
    BY <2>6 DEF StartBus, Spawn
  <2>7. CASE StartApp(s)
    BY <2>7 DEF StartApp, Spawn
  <2>8. CASE LaunchAdb(s)
    BY <2>8 DEF LaunchAdb, Spawn
  <2>9. CASE SpawnFails(s)
    BY <2>9 DEF SpawnFails
  <2>10. CASE CheckApp(s)
    BY <2>10 DEF CheckApp
  <2>11. CASE CheckDevice(s)
    BY <2>11 DEF CheckDevice
  <2>12. CASE SaveOpen(s)
    BY <2>12 DEF SaveOpen
  <2>13. CASE SaveWrite(s)
    BY <2>13 DEF SaveWrite
  <2>14. CASE SaveFails(s)
    BY <2>14 DEF SaveFails
  <2>15. CASE ReleaseApp(s)
    <3>1. /\ pc[s] = "release_app" /\ mode'[s] = mode[s] /\ profile' = profile
          /\ file'[s] = file[s] /\ display' = display
          /\ pc'[s] = IF mode[s] = "android" THEN "refused" ELSE "release_bus"
      BY <2>15 DEF ReleaseApp
    <3>2. /\ handle'[s] \subseteq handle[s] /\ handle'[s] \cap {"app"} \subseteq Unstoppable(s)
          /\ alive'[s] \subseteq handle'[s]
          /\ "xvfb" \in alive[s] => "xvfb" \in alive'[s]
      BY <2>15 DEF ReleaseApp, Release, Gone
    <3>3. \A d \in Displays : holder'[d] = s => d = display'[s] /\ "xvfb" \in alive'[s]
      BY <2>15 DEF ReleaseApp, Release, Gone
    <3>4. ModeAt(s)'
      <4>1. CASE mode[s] = "android"
        BY <3>1, <4>1
      <4>2. CASE mode[s] # "android"
        BY <3>1, <4>2 DEF Modes
      <4> QED
        BY <4>1, <4>2
    <3>5. HandleAt(s)'
      <4>1. CASE mode[s] = "android"
        BY <3>1, <3>2, <4>1
      <4>2. CASE mode[s] # "android"
        BY <3>1, <3>2, <4>2
      <4> QED
        BY <4>1, <4>2
    <3>6. ProfileAt(s)'
      BY <3>1
    <3>7. OnHost(s)'
      BY <3>1, <3>2, <3>3
    <3> QED
      BY <3>4, <3>5, <3>6, <3>7 DEF Good
  <2>16. CASE ReleaseBus(s)
    BY <2>16 DEF ReleaseBus, Release, Gone
  <2>17. CASE ReleaseXvfb(s)
    BY <2>17 DEF ReleaseXvfb, Release, Gone
  <2>18. CASE ReleaseProfile(s)
    BY <2>18 DEF ReleaseProfile
  <2> QED
    BY <1>2, <2>1, <2>2, <2>3, <2>4, <2>5, <2>6, <2>7, <2>8, <2>9, <2>10, <2>11,
       <2>12, <2>13, <2>14, <2>15, <2>16, <2>17, <2>18 DEF Launcher
<1>3. CASE Host(s)
  <2>1. CASE Killed(s)
    BY <2>1 DEF Killed, Running
  <2>2. CASE XvfbBinds(s)
    BY <2>2 DEF XvfbBinds
  <2>3. CASE XvfbLosesRace(s)
    BY <2>3 DEF XvfbLosesRace
  <2>4. CASE AppConnects(s)
    BY <2>4 DEF AppConnects
  <2>5. CASE Dies(s)
    BY <2>5 DEF Dies, Gone
  <2> QED
    BY <1>3, <2>1, <2>2, <2>3, <2>4, <2>5 DEF Host
<1> QED
  BY <1>1, <1>2, <1>3

LEMMA InitInvariant == Init => StartInvariant
<1> SUFFICES ASSUME Init PROVE StartInvariant
  OBVIOUS
<1>1. TypeOK
  BY InitType
<1>2. ASSUME NEW s \in Sessions PROVE Good(s)
  BY HolderAssumption DEF Init, Good, ModeAt, HandleAt, ProfileAt, OnHost, Unstoppable
<1> QED
  BY <1>1, <1>2 DEF StartInvariant, Good

LEMMA NextInvariant == StartInvariant /\ [Next]_vars => StartInvariant'
<1> SUFFICES ASSUME StartInvariant, [Next]_vars PROVE StartInvariant'
  OBVIOUS
<1>1. TypeOK /\ TypeOK'
  BY NextType DEF StartInvariant
<1>2. \A t \in Sessions : Good(t)
  BY DEF StartInvariant, Good
<1>3. ASSUME NEW s \in Sessions, Begin(s) \/ Launcher(s) \/ Host(s), NEW t \in Sessions
      PROVE  Good(t)'
  <2>1. CASE t = s
    BY <1>1, <1>2, <1>3, <2>1, ActorStaysGood
  <2>2. CASE t # s
    BY <1>1, <1>2, <1>3, <2>2, OthersUntouched, UntouchedStaysGood
  <2> QED
    BY <2>1, <2>2
<1>4. ASSUME UNCHANGED vars, NEW t \in Sessions PROVE Good(t)'
  <2>1. Untouched(t)
    BY <1>4 DEF vars, locals, host, Untouched
  <2> QED
    BY <1>2, <2>1, UntouchedStaysGood
<1> QED
  BY <1>1, <1>3, <1>4 DEF Next, StartInvariant, Good

(***************************************************************************)
(* At every call of SessionStartUseCase.execute the sentinel pids, the     *)
(* profile and session.json are exactly what the calls before it made.     *)
(***************************************************************************)
THEOREM InvariantHolds == Spec => []StartInvariant
  BY InitInvariant, NextInvariant, PTL DEF Spec

-----------------------------------------------------------------------------
(***************************************************************************)
(* What the invariant says to the caller of a start.                       *)
(***************************************************************************)
LEMMA InvariantImplies ==
  StartInvariant => AllOrNothing /\ StartedIsComplete /\ NothingInvisible
<1> SUFFICES ASSUME StartInvariant, NEW s \in Sessions
             PROVE  /\ pc[s] = "refused" =>
                         /\ alive[s] \subseteq Unstoppable(s)
                         /\ ~ profile[s]
                         /\ file[s] # "saved"
                    /\ pc[s] = "started" => Owned(s) = Needs(mode[s]) /\ file[s] = "saved"
                    /\ \/ pc[s] \in Running \cup {"killed"}
                       \/ file[s] = "saved"
                       \/ alive[s] \subseteq Unstoppable(s)
  BY DEF AllOrNothing, StartedIsComplete, NothingInvisible
<1>1. TypeOK /\ HandleAt(s) /\ ProfileAt(s) /\ OnHost(s)
  BY DEF StartInvariant
<1>2. pc[s] = "refused" => /\ alive[s] \subseteq Unstoppable(s)
                           /\ ~ profile[s]
                           /\ file[s] # "saved"
  BY <1>1 DEF HandleAt, ProfileAt, OnHost
<1>3. pc[s] = "started" => Owned(s) = Needs(mode[s]) /\ file[s] = "saved"
  <2> SUFFICES ASSUME pc[s] = "started" PROVE Owned(s) = Needs(mode[s]) /\ file[s] = "saved"
    OBVIOUS
  <2>1. handle[s] = Needs(mode[s]) \cap Processes
    BY <1>1 DEF HandleAt
  <2>2. profile[s] <=> mode[s] = "marionette"
    BY <1>1 DEF ProfileAt
  <2>3. mode[s] \in Modes
    BY <1>1 DEF TypeOK
  <2> QED
    BY <1>1, <2>1, <2>2, <2>3 DEF Owned, Needs, Processes, Modes, OnHost
<1>4. \/ pc[s] \in Running \cup {"killed"}
      \/ file[s] = "saved"
      \/ alive[s] \subseteq Unstoppable(s)
  BY <1>1 DEF HandleAt, OnHost, TypeOK, Ended
<1> QED
  BY <1>2, <1>3, <1>4

(***************************************************************************)
(* A refused start leaves nothing behind: the finally block of             *)
(* session_start.py reaches every resource acquired inside the try.        *)
(***************************************************************************)
THEOREM RefusedLeavesNothing == Spec => []AllOrNothing
  BY InvariantHolds, InvariantImplies, PTL

(***************************************************************************)
(* A start that returned a session id owns all its kind of session needs.  *)
(***************************************************************************)
THEOREM CommitIsComplete == Spec => []StartedIsComplete
  BY InvariantHolds, InvariantImplies, PTL

(***************************************************************************)
(* No process survives its launcher without a session.json to find it by.  *)
(***************************************************************************)
THEOREM AllIsVisible == Spec => []NothingInvisible
  BY InvariantHolds, InvariantImplies, PTL

-----------------------------------------------------------------------------
(***************************************************************************)
(* Who may take a display away.                                            *)
(***************************************************************************)
LEMMA HolderStep ==
  ASSUME StartInvariant, NEW s \in Sessions, Begin(s) \/ Launcher(s) \/ Host(s),
         NEW d \in Displays, NEW t \in Sessions, holder[d] = t, holder'[d] # t
  PROVE  "xvfb" \in alive[t] /\ "xvfb" \notin alive'[t]
<1>1. TypeOK /\ OnHost(t)
  BY DEF StartInvariant
<1>2. ASSUME NEW p \in Processes, Gone(s, p)
      PROVE  "xvfb" \in alive[t] /\ "xvfb" \notin alive'[t]
  BY <1>1, <1>2 DEF Gone, TypeOK, OnHost
<1>3. ASSUME NEW p \in Processes, Release(s, p)
      PROVE  "xvfb" \in alive[t] /\ "xvfb" \notin alive'[t]
  BY <1>2, <1>3 DEF Release
<1>4. CASE Begin(s)
  BY <1>4 DEF Begin, host
<1>5. CASE Launcher(s)
  <2>1. CASE ReleaseApp(s)
    BY <1>3, <2>1 DEF ReleaseApp, Processes
  <2>2. CASE ReleaseBus(s)
    BY <1>3, <2>2 DEF ReleaseBus, Processes
  <2>3. CASE ReleaseXvfb(s)
    BY <1>3, <2>3 DEF ReleaseXvfb, Processes
  <2>4. CASE UNCHANGED holder
    BY <2>4
  <2> QED
    BY <1>5, <2>1, <2>2, <2>3, <2>4
       DEF Launcher, Allocate, AllocateFails, Provision, ProvisionFails, StartXvfb,
           StartBus, StartApp, LaunchAdb, SpawnFails, Spawn, CheckApp, CheckDevice,
           SaveOpen, SaveWrite, SaveFails, ReleaseProfile, host
<1>6. CASE Host(s)
  <2>1. CASE XvfbBinds(s)
    BY <2>1, <1>1, HolderAssumption DEF XvfbBinds, TypeOK
  <2>2. CASE Dies(s)
    BY <1>1, <1>2, <2>2 DEF Dies, TypeOK
  <2> QED
    BY <1>6, <2>1, <2>2 DEF Host, Killed, XvfbLosesRace, AppConnects, host
<1> QED
  BY <1>4, <1>5, <1>6

(***************************************************************************)
(* A launcher that cleans up after a lost race for a display number never  *)
(* takes the display away from the session that won it: stopping Xvfb goes *)
(* by pid (xvfb_adapter.py), never by display number.                      *)
(***************************************************************************)
THEOREM DisplaysStayWithTheirServer == Spec => DisplaysChangeHandsInOrder
<1>1. StartInvariant /\ [Next]_vars =>
        [\A d \in Displays, t \in Sessions :
           holder[d] = t /\ holder'[d] # t =>
             "xvfb" \in alive[t] /\ "xvfb" \notin alive'[t]]_vars
  BY HolderStep DEF Next
<1> QED
  BY <1>1, InvariantHolds, PTL DEF Spec, DisplaysChangeHandsInOrder

-----------------------------------------------------------------------------
(***************************************************************************)
(* The order of the finally block.  Only the release steps give anything   *)
(* back, and the invariant says what the earlier ones have already left.   *)
(***************************************************************************)
InReverse(s) ==
  LET given == Owned(s) \ Owned(s)'
      kept  == Owned(s)' \ Unstoppable(s)
  IN  /\ "bus" \in given => "app" \notin kept
      /\ "xvfb" \in given => kept \cap {"app", "bus"} = {}
      /\ "profile" \in given => kept \cap Processes = {}

LEMMA KeepingIsInReverse ==
  ASSUME NEW s \in Sessions, Owned(s) \subseteq Owned(s)'
  PROVE  InReverse(s)
  BY DEF InReverse

LEMMA ReleaseGivesOne ==
  ASSUME TypeOK, NEW s \in Sessions, NEW p \in Processes, Release(s, p), UNCHANGED profile
  PROVE  Owned(s) \ Owned(s)' \subseteq {p} /\ Owned(s)' \subseteq Owned(s)
<1>1. handle'[s] = handle[s] \ {p} \/ handle'[s] = handle[s]
  BY DEF Release, TypeOK
<1>2. profile'[s] = profile[s]
  OBVIOUS
<1> QED
  BY <1>1, <1>2 DEF Owned

LEMMA OnlyReleaseGives ==
  ASSUME StartInvariant, NEW s \in Sessions, Begin(s) \/ Launcher(s) \/ Host(s),
         ~ ReleaseApp(s), ~ ReleaseBus(s), ~ ReleaseXvfb(s), ~ ReleaseProfile(s)
  PROVE  Owned(s) \subseteq Owned(s)'
<1>1. TypeOK /\ ProfileAt(s)
  BY DEF StartInvariant
<1>2. CASE Provision(s) \/ ProvisionFails(s)
  <2>1. ~ profile[s] /\ handle' = handle
    BY <1>1, <1>2 DEF Provision, ProvisionFails, ProfileAt, locals
  <2> QED
    BY <2>1 DEF Owned
<1>3. CASE StartXvfb(s) \/ StartBus(s) \/ StartApp(s) \/ LaunchAdb(s)
  <2>1. PICK p \in Processes : Spawn(s, p)
    BY <1>3 DEF StartXvfb, StartBus, StartApp, LaunchAdb, Processes
  <2>2. handle[s] \subseteq handle'[s] /\ profile'[s] = profile[s]
    BY <1>1, <2>1 DEF Spawn, TypeOK
  <2> QED
    BY <2>2 DEF Owned
<1>4. CASE UNCHANGED <<handle, profile>>
  BY <1>4 DEF Owned
<1> QED
  BY <1>2, <1>3, <1>4
     DEF Begin, Launcher, Host, Allocate, AllocateFails, SpawnFails, CheckApp,
         CheckDevice, SaveOpen, SaveWrite, SaveFails, Killed, XvfbBinds,
         XvfbLosesRace, AppConnects, Dies, locals, host

LEMMA ActorInReverse ==
  ASSUME StartInvariant, NEW s \in Sessions, Begin(s) \/ Launcher(s) \/ Host(s)
  PROVE  InReverse(s)
<1>1. TypeOK /\ HandleAt(s)
  BY DEF StartInvariant
<1>2. CASE ReleaseApp(s)
  <2>1. Owned(s) \ Owned(s)' \subseteq {"app"}
    <3>1. CASE UNCHANGED handle
      BY <1>2, <3>1 DEF ReleaseApp, Owned
    <3>2. CASE Release(s, "app")
      BY <1>1, <1>2, <3>2, ReleaseGivesOne DEF ReleaseApp, Processes
    <3> QED
      BY <1>2, <3>1, <3>2 DEF ReleaseApp
  <2> QED
    BY <2>1 DEF InReverse
<1>3. CASE ReleaseBus(s)
  <2>1. Owned(s) \ Owned(s)' \subseteq {"bus"} /\ Owned(s)' \subseteq Owned(s)
    BY <1>1, <1>3, ReleaseGivesOne DEF ReleaseBus, Processes
  <2>2. handle[s] \cap {"app"} \subseteq Unstoppable(s)
    BY <1>1, <1>3 DEF ReleaseBus, HandleAt
  <2>3. "app" \in Owned(s)' => "app" \in Unstoppable(s)
    BY <2>1, <2>2 DEF Owned
  <2> QED
    BY <2>1, <2>3 DEF InReverse
<1>4. CASE ReleaseXvfb(s)
  <2>1. Owned(s) \ Owned(s)' \subseteq {"xvfb"} /\ Owned(s)' \subseteq Owned(s)
    BY <1>1, <1>4, ReleaseGivesOne DEF ReleaseXvfb, Processes
  <2>2. handle[s] \subseteq {"xvfb"} \cup Unstoppable(s)
    BY <1>1, <1>4 DEF ReleaseXvfb, HandleAt
  <2>3. Owned(s)' \cap {"app", "bus"} \subseteq Unstoppable(s)
    BY <2>1, <2>2 DEF Owned
  <2> QED
    BY <2>1, <2>3 DEF InReverse
<1>5. CASE ReleaseProfile(s)
  <2>1. handle'[s] = handle[s] /\ handle[s] \subseteq Unstoppable(s)
    BY <1>1, <1>5 DEF ReleaseProfile, HandleAt, locals
  <2>2. handle[s] \subseteq Owned(s)'
    BY <2>1 DEF Owned
  <2>3. Owned(s)' \subseteq Unstoppable(s) \cup {"profile"}
    BY <2>1 DEF Owned
  <2>4. Owned(s) \ Owned(s)' \subseteq {"profile"}
    BY <2>2 DEF Owned
  <2> QED
    BY <2>3, <2>4 DEF InReverse, Processes
<1> QED
  BY <1>2, <1>3, <1>4, <1>5, OnlyReleaseGives, KeepingIsInReverse

(***************************************************************************)
(* The finally block gives resources back in the reverse order of their    *)
(* acquisition, whatever was acquired before the start failed.             *)
(***************************************************************************)
THEOREM ReleaseOrder == Spec => ReleasedInReverse
<1>1. ASSUME StartInvariant, Next, NEW t \in Sessions PROVE InReverse(t)
  <2>1. PICK s \in Sessions : Begin(s) \/ Launcher(s) \/ Host(s)
    BY <1>1 DEF Next
  <2>2. CASE t = s
    BY <1>1, <2>1, <2>2, ActorInReverse
  <2>3. CASE t # s
    <3>1. Untouched(t)
      BY <1>1, <2>1, <2>3, OthersUntouched DEF StartInvariant
    <3> QED
      BY <3>1, KeepingIsInReverse DEF Untouched, Owned
  <2> QED
    BY <2>2, <2>3
<1>2. StartInvariant /\ [Next]_vars => [\A s \in Sessions : InReverse(s)]_vars
  BY <1>1
<1> QED
  BY <1>2, InvariantHolds, PTL DEF Spec, ReleasedInReverse, InReverse

-----------------------------------------------------------------------------
(***************************************************************************)
(* The launcher implements the promise of AtomicStart.  First, what a step *)
(* of s does to the abstract state of s.                                   *)
(***************************************************************************)
Need(s) == IF pc[s] = "idle" THEN {} ELSE Needs(mode[s])

PromisedStep(s) ==
  \/ /\ Phase(s) = "idle" /\ Phase(s)' \in {"running", "refused"}
     /\ Owned(s)' = Owned(s)
  \/ /\ Phase(s) = "running" /\ Need(s)' = Need(s)
     /\ \/ Phase(s)' \in {"running", "abandoned"}
        \/ Phase(s)' = "started" /\ Owned(s) = Need(s) /\ Owned(s)' = Owned(s)
        \/ Phase(s)' = "refused" /\ Owned(s)' \subseteq Unstoppable(s)
  \/ Phase(s)' = Phase(s) /\ Need(s)' = Need(s) /\ Owned(s)' = Owned(s)

LEMMA UntouchedPromise ==
  ASSUME NEW t \in Sessions, Untouched(t)
  PROVE  Phase(t)' = Phase(t) /\ Need(t)' = Need(t) /\ Owned(t)' = Owned(t)
  BY DEF Untouched, Phase, Need, Needs, Owned, Running

LEMMA ActorPromise ==
  ASSUME StartInvariant, NEW s \in Sessions, Begin(s) \/ Launcher(s) \/ Host(s)
  PROVE  PromisedStep(s)
<1>1. TypeOK /\ HandleAt(s) /\ ProfileAt(s)
  BY DEF StartInvariant
<1>2. CASE Begin(s)
  <2>1. Phase(s) = "idle" /\ Owned(s)' = Owned(s)
    <3>1. pc[s] = "idle" /\ handle'[s] = handle[s] /\ profile'[s] = profile[s]
      BY <1>2 DEF Begin, host
    <3>2. Phase(s) = "idle"
      BY <3>1 DEF Phase, Running
    <3>3. Owned(s)' = Owned(s)
      BY <3>1 DEF Owned
    <3> QED
      BY <3>2, <3>3
  <2>2. pc'[s] \in {"refused", "launch_adb", "allocate"}
    BY <1>1, <1>2 DEF Begin, Goto, TypeOK
  <2>3. Phase(s)' \in {"running", "refused"}
    BY <2>2 DEF Phase, Running
  <2> QED
    BY <2>1, <2>3 DEF PromisedStep
<1>3. CASE Launcher(s)
  <2>1. pc[s] \in Running /\ mode' = mode
    BY <1>3
       DEF Launcher, Running, Allocate, AllocateFails, Provision, ProvisionFails,
           StartXvfb, StartBus, StartApp, LaunchAdb, SpawnFails, Spawn, CheckApp,
           CheckDevice, SaveOpen, SaveWrite, SaveFails, ReleaseApp, ReleaseBus,
           ReleaseXvfb, ReleaseProfile, locals
  <2>2. pc'[s] # "idle"
    BY <1>1, <1>3
       DEF Launcher, TypeOK, Goto, Allocate, AllocateFails, Provision, ProvisionFails,
           StartXvfb, StartBus, StartApp, LaunchAdb, SpawnFails, Spawn, CheckApp,
           CheckDevice, SaveOpen, SaveWrite, SaveFails, ReleaseApp, ReleaseBus,
           ReleaseXvfb, ReleaseProfile
  <2>3. Phase(s) = "running" /\ Need(s)' = Need(s)
    BY <2>1, <2>2 DEF Phase, Need, Needs, Running
  <2>4. CASE SaveWrite(s)
    <3>1. pc[s] = "write" /\ pc'[s] = "started" /\ handle' = handle /\ profile' = profile
      BY <1>1, <2>4 DEF SaveWrite, Goto, TypeOK, locals
    <3>2. handle[s] = Needs(mode[s]) \cap Processes /\ (profile[s] <=> mode[s] = "marionette")
      BY <1>1, <3>1 DEF HandleAt, ProfileAt
    <3>3. Owned(s) = Need(s) /\ Owned(s)' = Owned(s)
      BY <1>1, <3>1, <3>2 DEF Owned, Need, Needs, Processes, TypeOK, Modes
    <3>4. Phase(s)' = "started"
      BY <3>1 DEF Phase, Running
    <3> QED
      BY <2>3, <3>3, <3>4 DEF PromisedStep
  <2>5. CASE pc'[s] = "refused"
    <3>1. CASE ReleaseApp(s)
      <4>1. mode[s] = "android" /\ pc[s] = "release_app" /\ profile'[s] = profile[s]
        BY <1>1, <2>5, <3>1 DEF ReleaseApp, Goto, TypeOK
      <4>2. handle[s] \subseteq {"app"} /\ ~ profile[s]
        BY <1>1, <4>1 DEF HandleAt, ProfileAt
      <4>3. handle'[s] \subseteq Unstoppable(s)
        <5>1. CASE s \in Privileged
          BY <1>1, <3>1, <4>2, <5>1 DEF ReleaseApp, Release, Unstoppable, TypeOK
        <5>2. CASE s \notin Privileged
          BY <1>1, <3>1, <4>2, <5>2 DEF ReleaseApp, Release, Unstoppable, TypeOK
        <5> QED
          BY <5>1, <5>2
      <4> QED
        BY <4>1, <4>2, <4>3, <2>3, <2>5 DEF PromisedStep, Owned, Phase, Running
    <3>2. CASE ReleaseProfile(s)
      <4>1. handle'[s] = handle[s] /\ handle[s] \subseteq Unstoppable(s) /\ ~ profile'[s]
        BY <1>1, <3>2 DEF ReleaseProfile, HandleAt, TypeOK, locals
      <4> QED
        BY <4>1, <2>3, <2>5 DEF PromisedStep, Owned, Phase, Running
    <3> QED
      BY <1>1, <1>3, <2>5, <3>1, <3>2
         DEF Launcher, TypeOK, Goto, Allocate, AllocateFails, Provision, ProvisionFails,
             StartXvfb, StartBus, StartApp, LaunchAdb, SpawnFails, Spawn, CheckApp,
             CheckDevice, SaveOpen, SaveWrite, SaveFails, ReleaseBus, ReleaseXvfb
  <2>6. CASE pc'[s] \in Running \cup {"raised"}
    BY <2>3, <2>6 DEF PromisedStep, Phase, Running
  <2> QED
    BY <1>1, <1>3, <2>4, <2>5, <2>6
       DEF Launcher, TypeOK, Running, Goto, Allocate, AllocateFails, Provision,
           ProvisionFails, StartXvfb, StartBus, StartApp, LaunchAdb, SpawnFails,
           Spawn, CheckApp, CheckDevice, SaveOpen, SaveFails, ReleaseApp, ReleaseBus,
           ReleaseXvfb, ReleaseProfile
<1>4. CASE Host(s)
  <2>1. CASE Killed(s)
    BY <1>1, <2>1 DEF Killed, Goto, TypeOK, PromisedStep, Phase, Need, Needs, Running,
                      locals, host
  <2>2. CASE UNCHANGED <<pc, mode, handle, profile>>
    <3>1. Phase(s)' = Phase(s) /\ Need(s)' = Need(s) /\ Owned(s)' = Owned(s)
      BY <2>2 DEF Phase, Need, Needs, Owned
    <3> QED
      BY <3>1 DEF PromisedStep
  <2> QED
    BY <1>4, <2>1, <2>2 DEF Host, XvfbBinds, XvfbLosesRace, AppConnects, Dies, locals
<1> QED
  BY <1>2, <1>3, <1>4

LEMMA InitPromise == Init => Promise!Init
<1> SUFFICES ASSUME Init PROVE Promise!Init
  OBVIOUS
<1>1. ASSUME NEW s \in Sessions
      PROVE  pc[s] = "idle" /\ Phase(s) = "idle" /\ Owned(s) = {}
  <2>1. pc[s] = "idle" /\ handle[s] = {} /\ profile[s] = FALSE
    BY DEF Init
  <2> QED
    BY <2>1 DEF Phase, Running, Owned
<1> QED
  BY <1>1 DEF Promise!Init

LEMMA NextPromise ==
  StartInvariant /\ StartInvariant' /\ [Next]_vars => [Promise!Next]_(Promise!vars)
<1> SUFFICES ASSUME StartInvariant, StartInvariant', [Next]_vars
             PROVE  [Promise!Next]_(Promise!vars)
  OBVIOUS
<1> DEFINE phase == [s \in Sessions |-> Phase(s)]
           need == [s \in Sessions |-> Need(s)]
           held == [s \in Sessions |-> Owned(s)]
           resources == Processes \cup {"profile"}
<1>1. ASSUME NEW s \in Sessions, Begin(s) \/ Launcher(s) \/ Host(s)
      PROVE  [Promise!Next]_(Promise!vars)
  <2>1. PromisedStep(s)
    BY <1>1, ActorPromise
  <2>2. \A t \in Sessions \ {s} :
          Phase(t)' = Phase(t) /\ Need(t)' = Need(t) /\ Owned(t)' = Owned(t)
    BY <1>1, OthersUntouched, UntouchedPromise DEF StartInvariant
  <2>3. /\ phase' = [phase EXCEPT ![s] = Phase(s)']
        /\ need' = [need EXCEPT ![s] = Need(s)']
        /\ held' = [held EXCEPT ![s] = Owned(s)']
    BY <2>2
  <2>4. Need(s)' \in SUBSET resources /\ Owned(s)' \in SUBSET resources
    BY DEF StartInvariant, TypeOK, Need, Needs, Owned, Modes, Processes
  <2>5. phase[s] = Phase(s) /\ need[s] = Need(s) /\ held[s] = Owned(s)
    OBVIOUS
  <2>6. CASE /\ Phase(s) = "idle" /\ Phase(s)' \in {"running", "refused"}
             /\ Owned(s)' = Owned(s)
    <3>1. held' = held
      BY <2>3, <2>6
    <3>2. Promise!Begin(s)
      BY <2>3, <2>4, <2>5, <2>6, <3>1 DEF Promise!Begin, Need
    <3> QED
      BY <3>2 DEF Promise!Next
  <2>7. CASE /\ Phase(s) = "running" /\ Need(s)' = Need(s)
             /\ \/ Phase(s)' \in {"running", "abandoned"}
                \/ Phase(s)' = "started" /\ Owned(s) = Need(s) /\ Owned(s)' = Owned(s)
                \/ Phase(s)' = "refused" /\ Owned(s)' \subseteq Unstoppable(s)
    <3>1. need' = need
      BY <2>3, <2>7
    <3>2. CASE Phase(s)' = "running"
      <4>1. phase' = phase
        BY <2>3, <2>7, <3>2
      <4>2. Promise!Work(s)
        BY <2>3, <2>4, <2>5, <2>7, <3>1, <4>1 DEF Promise!Work, Need
      <4> QED
        BY <4>2 DEF Promise!Next
    <3>3. CASE Phase(s)' = "abandoned"
      <4>1. Promise!Abandon(s)
        BY <2>3, <2>4, <2>5, <2>7, <3>1, <3>3 DEF Promise!Abandon, Need
      <4> QED
        BY <4>1 DEF Promise!Next
    <3>4. CASE Phase(s)' = "started" /\ Owned(s) = Need(s) /\ Owned(s)' = Owned(s)
      <4>1. held' = held
        BY <2>3, <3>4
      <4>2. Promise!Commit(s)
        BY <2>3, <2>5, <2>7, <3>1, <3>4, <4>1 DEF Promise!Commit, Need
      <4> QED
        BY <4>2 DEF Promise!Next
    <3>5. CASE Phase(s)' = "refused" /\ Owned(s)' \subseteq Unstoppable(s)
      <4>1. Promise!Refuse(s)
        BY <2>3, <2>5, <2>7, <3>1, <3>5 DEF Promise!Refuse, Need
      <4> QED
        BY <4>1 DEF Promise!Next
    <3> QED
      BY <2>7, <3>2, <3>3, <3>4, <3>5
  <2>8. CASE Phase(s)' = Phase(s) /\ Need(s)' = Need(s) /\ Owned(s)' = Owned(s)
    <3>1. phase' = phase /\ need' = need /\ held' = held
      BY <2>2, <2>8
    <3> QED
      BY <3>1 DEF Promise!vars, Need
  <2> QED
    BY <2>1, <2>6, <2>7, <2>8 DEF PromisedStep
<1>2. CASE UNCHANGED vars
  <2>1. ASSUME NEW t \in Sessions
        PROVE  Phase(t)' = Phase(t) /\ Need(t)' = Need(t) /\ Owned(t)' = Owned(t)
    BY <1>2, UntouchedPromise DEF vars, locals, host, Untouched
  <2>2. phase' = phase /\ need' = need /\ held' = held
    BY <2>1
  <2> QED
    BY <2>2 DEF Promise!vars, Need
<1> QED
  BY <1>1, <1>2 DEF Next

(***************************************************************************)
(* The launcher of session_start.py, all its error paths included, is an   *)
(* implementation of the all-or-nothing start of AtomicStart.              *)
(***************************************************************************)
THEOREM StartIsAtomic == Spec => KeepsPromise
  BY InvariantHolds, InitPromise, NextPromise, PTL DEF Spec, KeepsPromise, Promise!Spec
=============================================================================
