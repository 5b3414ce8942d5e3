------------------------ MODULE SessionStore_proofs ------------------------
(***************************************************************************)
(* The store for any number of sessions and of concurrent commands, any of *)
(* which may be killed.                                                    *)
(***************************************************************************)
EXTENDS SessionStore, FiniteSetTheorems, WellFoundedInduction, TLAPS

-----------------------------------------------------------------------------
(***************************************************************************)
(* Type correctness.                                                       *)
(***************************************************************************)

\* The newest of some sessions is one of them, and none of them is newer.
LEMMA NewestIsThere ==
  ASSUME NEW S \in SUBSET Sessions, S # {}
  PROVE  Max(S) \in S /\ \A s \in S : s <= Max(S)
<1> DEFINE T == {NumSessions - s : s \in S}
<1>1. NumSessions \in Nat /\ \A s \in S : s \in Nat /\ NumSessions - s \in Nat
  BY SessionAssumption DEF Sessions
<1>2. T \subseteq Nat /\ T # {}
  BY <1>1
<1>3. PICK t \in T : \A u \in T : ~ (<<u, t>> \in OpToRel(<, Nat))
  <2> HIDE DEF T
  <2> QED
    BY <1>2, NatLessThanWellFounded, WFMin
<1>4. \A u \in T : ~ (u < t)
  <2> HIDE DEF T
  <2> QED
    BY <1>2, <1>3 DEF OpToRel
<1>5. PICK m \in S : t = NumSessions - m
  OBVIOUS
<1>6. \A s \in S : m >= s
  <2> TAKE s \in S
  <2>1. NumSessions - s \in T
    OBVIOUS
  <2> HIDE DEF T
  <2> QED
    BY <1>1, <1>4, <1>5, <2>1
<1>7. Max(S) \in S /\ \A s \in S : Max(S) >= s
  BY <1>6 DEF Max
<1>8. Max(S) \in Nat
  BY <1>1, <1>7
<1> QED
  BY <1>1, <1>7, <1>8

Pcs == {"idle"} \cup Steps \cup Ended

\* Touching a directory leaves ages in their type, and nothing gets older.
LEMMA TouchedIsYounger ==
  ASSUME TypeOK, NEW s, NEW new, aged' = Touched(s, new)
  PROVE  /\ aged' \in [Sessions -> SUBSET {"start", "mtime"}]
         /\ \A t \in Sessions : aged'[t] \subseteq aged[t]
BY DEF TypeOK, Touched

\* A set of one element is not empty.
LEMMA OneIsSome == \A S : Cardinality(S) = 1 => S # {}
BY FS_EmptySet

\* A process that goes to a step is the only one that does.
LEMMA GoesTo ==
  ASSUME TypeOK, NEW p \in Procs, NEW step \in Pcs, Goto(p, step)
  PROVE  /\ pc' \in [Procs -> Pcs] /\ pc'[p] = step
         /\ \A q \in Procs : q # p => pc'[q] = pc[q]
BY DEF TypeOK, Goto, Pcs

\* A step of the store keeps the types.
LEMMA TypeIsKept ==
  ASSUME TypeOK, HasSession, [Next]_vars
  PROVE  TypeOK'
<1> USE DEF TypeOK, host, store, locals
<1>0. /\ NumSessions \in Nat /\ Sessions = 1 .. NumSessions
      /\ Sessions \subseteq 0 .. NumSessions /\ 0 \in 0 .. NumSessions
  BY SessionAssumption DEF Sessions
<1>1. ASSUME NEW p \in Procs, Start(p) PROVE TypeOK'
  <2>1. CASE StartBegin(p)
    BY <1>0, <2>1 DEF StartBegin, Goto, Steps, Ended, Brings
  <2>2. CASE StartFails(p)
    BY <1>0, <2>2 DEF StartFails, Goto, Steps, Ended
  <2> QED
    BY <1>1, <2>1, <2>2 DEF Start
<1>2. ASSUME NEW p \in Procs, Resize(p) PROVE TypeOK'
  <2>1. CASE ResizeLoad(p)
    BY <1>0, <2>1 DEF ResizeLoad, Goto, Steps, Ended
  <2>2. CASE ResizeDisplay(p)
    BY <1>0, <2>2 DEF ResizeDisplay, Goto, Steps, Ended
  <2> QED
    BY <1>2, <2>1, <2>2 DEF Resize
<1>3. ASSUME NEW p \in Procs, Save(p) PROVE TypeOK'
  <2>1. CASE SaveMkdir(p)
    BY <1>0, <2>1 DEF SaveMkdir, Goto, Steps, Ended, Touched
  <2>2. CASE SaveOpen(p)
    BY <1>0, <2>2 DEF SaveOpen, Goto, Steps, Ended, Touched
  <2>3. CASE SaveOpenFails(p)
    BY <1>0, <2>3 DEF SaveOpenFails, Goto, Steps, Ended
  <2>4. CASE SaveWrite(p)
    <3>1. /\ file' \in [Sessions -> {"none", "empty", "saved", "garbled"}]
          /\ stage' \in [Sessions -> {"no", "starting", "up", "failed"}]
      BY <2>4 DEF SaveWrite
    <3>2. pc' \in [Procs -> Pcs]
      BY <2>4, GoesTo DEF SaveWrite, Pcs, Steps
    <3> QED
      BY <2>4, <3>1, <3>2 DEF SaveWrite, Pcs
  <2> QED
    BY <1>3, <2>1, <2>2, <2>3, <2>4 DEF Save
<1>4. ASSUME NEW p \in Procs, Scan(p) PROVE TypeOK'
  <2>1. CASE ScanBegin(p)
    BY <1>0, <2>1 DEF ScanBegin, Goto, Steps, Ended
  <2>2. CASE ScanLoad(p)
    BY <1>0, <2>2 DEF ScanLoad, Goto, Steps, Ended
  <2>3. CASE ScanRead(p)
    <3>1. pc' \in [Procs -> Pcs]
      BY <2>3, GoesTo DEF ScanRead, Pcs, Steps, Ended
    <3>2. sid[p] \in Sessions
      <4>1. sid[p] # 0
        BY <2>3 DEF ScanRead, HasSession, Steps
      <4> QED
        BY <1>0, <4>1
    <3>3. found' \in [Procs -> SUBSET Sessions]
      BY <2>3, <3>2 DEF ScanRead
    <3> QED
      BY <2>3, <3>1, <3>3 DEF ScanRead, Pcs
  <2>4. CASE ScanLoaded(p)
    BY <1>0, <2>4 DEF ScanLoaded, Goto, Steps, Ended
  <2>5. CASE ScanProbe(p)
    <3>1. todo' \in [Procs -> SUBSET Sessions] /\ found' \in [Procs -> SUBSET Sessions]
      <4>1. PICK s \in todo[p] :
              /\ todo' = [todo EXCEPT ![p] = @ \ {s}]
              /\ \/ found' = [found EXCEPT ![p] = @ \cup {s}]
                 \/ found' = [found EXCEPT ![p] = @]
        BY <2>5 DEF ScanProbe
      <4>2. todo[p] \in SUBSET Sessions /\ found[p] \in SUBSET Sessions /\ s \in Sessions
        OBVIOUS
      <4> QED
        BY <4>1, <4>2
    <3> QED
      BY <2>5, <3>1 DEF ScanProbe
  <2>6. CASE Resolve(p)
    <3>1. (IF found[p] = {} THEN 0 ELSE Max(found[p])) \in 0 .. NumSessions
      <4>1. found[p] \in SUBSET Sessions
        OBVIOUS
      <4> QED
        BY <1>0, <4>1, NewestIsThere
    <3> QED
      BY <2>6, <3>1 DEF Resolve, Goto, Steps, Ended
  <2>7. CASE UseResolved(p)
    BY <1>0, <2>7 DEF UseResolved, Goto, Steps, Ended
  <2> QED
    BY <1>4, <2>1, <2>2, <2>3, <2>4, <2>5, <2>6, <2>7 DEF Scan
<1>5. ASSUME NEW p \in Procs, Stop(p) PROVE TypeOK'
  <2>1. CASE StopSole(p)
    <3>1. (IF Cardinality(found[p]) = 1 THEN Max(found[p]) ELSE 0) \in 0 .. NumSessions
      <4>1. found[p] \in SUBSET Sessions
        OBVIOUS
      <4>2. Cardinality(found[p]) = 1 => found[p] # {}
        BY OneIsSome
      <4> QED
        BY <1>0, <4>1, <4>2, NewestIsThere
    <3> QED
      BY <2>1, <3>1 DEF StopSole, Goto, Steps, Ended
  <2>2. CASE StopNamed(p)
    BY <1>0, <2>2 DEF StopNamed, Goto, Steps, Ended
  <2>3. CASE KillApp(p)
    BY <1>0, <2>3 DEF KillApp, Goto, Steps, Ended
  <2>4. CASE KillXvfb(p)
    BY <1>0, <2>4 DEF KillXvfb, Goto, Steps, Ended
  <2> QED
    BY <1>5, <2>1, <2>2, <2>3, <2>4 DEF Stop
<1>6. ASSUME NEW p \in Procs, Prune(p) PROVE TypeOK'
  <2>1. CASE PruneBegin(p)
    BY <1>0, <2>1 DEF PruneBegin, Goto, Steps, Ended
  <2>2. CASE PrunePick(p)
    BY <1>0, <2>2 DEF PrunePick, Goto, Steps, Ended
  <2>3. CASE PruneEnd(p)
    BY <1>0, <2>3 DEF PruneEnd, Goto, Steps, Ended
  <2>4. CASE PruneLoad(p)
    BY <1>0, <2>4 DEF PruneLoad, Goto, Steps, Ended
  <2>5. CASE PruneRead(p)
    BY <1>0, <2>5 DEF PruneRead, Goto, Steps, Ended
  <2>6. CASE PruneJudge(p)
    BY <1>0, <2>6 DEF PruneJudge, Goto, Steps, Ended
  <2>7. CASE PruneStat(p)
    BY <1>0, <2>7 DEF PruneStat, Goto, Steps, Ended
  <2>8. CASE PruneRemove(p)
    <3>1. /\ file' \in [Sessions -> {"none", "empty", "saved", "garbled"}]
          /\ log' \in [Sessions -> BOOLEAN]
      <4>1. CASE dir[sid[p]]
        BY <2>8, <4>1 DEF PruneRemove
      <4>2. CASE ~ dir[sid[p]]
        BY <2>8, <4>2 DEF PruneRemove
      <4> QED
        BY <4>1, <4>2
    <3>2. fd' \in [Procs -> BOOLEAN]
      <4>1. CASE dir[sid[p]]
        <5>1. fd' = [q \in Procs |-> fd[q] /\ sid[q] # sid[p]]
          BY <2>8, <4>1 DEF PruneRemove
        <5> QED
          BY <5>1
      <4>2. CASE ~ dir[sid[p]]
        BY <2>8, <4>2 DEF PruneRemove
      <4> QED
        BY <4>1, <4>2
    <3>3. pc' \in [Procs -> Pcs]
      BY <2>8, GoesTo DEF PruneRemove, Pcs, Steps
    <3> QED
      BY <2>8, <3>1, <3>2, <3>3 DEF PruneRemove, Pcs
  <2>9. CASE PruneRmdir(p)
    <3>1. dir' \in [Sessions -> BOOLEAN]
      BY <2>9 DEF PruneRmdir
    <3>2. pc' \in [Procs -> Pcs]
      BY <2>9, GoesTo DEF PruneRmdir, Pcs, Steps, Ended
    <3> QED
      BY <2>9, <3>1, <3>2 DEF PruneRmdir, Pcs
  <2> QED
    BY <1>6, <2>1, <2>2, <2>3, <2>4, <2>5, <2>6, <2>7, <2>8, <2>9 DEF Prune
<1>7. ASSUME NEW p \in Procs, Log(p) PROVE TypeOK'
  <2>1. CASE LogMkdir(p)
    BY <1>0, <2>1 DEF LogMkdir, Goto, Steps, Ended, Touched
  <2>2. CASE LogAppend(p)
    <3>1. log' \in [Sessions -> BOOLEAN] /\ aged' \in [Sessions -> SUBSET {"start", "mtime"}]
      <4>1. CASE dir[sid[p]]
        <5>1. log' = [log EXCEPT ![sid[p]] = TRUE] /\ aged' = Touched(sid[p], ~ log[sid[p]])
          BY <2>2, <4>1 DEF LogAppend
        <5> QED
          BY <5>1, TouchedIsYounger
      <4>2. CASE ~ dir[sid[p]]
        BY <2>2, <4>2 DEF LogAppend
      <4> QED
        BY <4>1, <4>2
    <3>2. pc' \in [Procs -> Pcs]
      BY <2>2, GoesTo DEF LogAppend, Pcs, Ended
    <3> QED
      BY <2>2, <3>1, <3>2 DEF LogAppend, Pcs
  <2> QED
    BY <1>7, <2>1, <2>2 DEF Log
<1>8. ASSUME NEW p \in Procs, Killed(p) PROVE TypeOK'
  BY <1>8 DEF Killed, Goto, Steps, Ended
<1>9. ASSUME NEW s \in Sessions, Dies(s) \/ Ages(s) PROVE TypeOK'
  BY <1>9 DEF Dies, Ages
<1>10. CASE UNCHANGED vars
  BY <1>10 DEF vars
<1> QED
  BY <1>1, <1>2, <1>3, <1>4, <1>5, <1>6, <1>7, <1>8, <1>9, <1>10 DEF Next, Process

\* The store begins with all of its variables in their types.
LEMMA TypeAtInit == Init => TypeOK
BY SessionAssumption DEF Init, TypeOK, Brings, Steps, Ended

\* A command moves alone: it changes nothing of another one but a file that
\* the other has open.
LEMMA OneMoves ==
  ASSUME TypeOK, NEW p \in Procs, Process(p) \/ Killed(p), NEW q \in Procs, q # p
  PROVE  /\ pc'[q] = pc[q] /\ sid'[q] = sid[q] /\ todo'[q] = todo[q]
         /\ found'[q] = found[q] /\ before'[q] = before[q] /\ (fd'[q] => fd[q])
<1> USE DEF TypeOK, Goto, host, store, locals
<1>1. CASE Start(p)
  BY <1>1 DEF Start, StartBegin, StartFails
<1>2. CASE Resize(p)
  BY <1>2 DEF Resize, ResizeLoad, ResizeDisplay
<1>3. CASE Save(p)
  BY <1>3 DEF Save, SaveMkdir, SaveOpen, SaveOpenFails, SaveWrite
<1>4. CASE Scan(p)
  BY <1>4 DEF Scan, ScanBegin, ScanLoad, ScanRead, ScanLoaded, ScanProbe, Resolve, UseResolved
<1>5. CASE Stop(p)
  BY <1>5 DEF Stop, StopSole, StopNamed, KillApp, KillXvfb
<1>6. CASE Prune(p)
  BY <1>6 DEF Prune, PruneBegin, PrunePick, PruneEnd, PruneLoad, PruneRead, PruneJudge, PruneStat, PruneRemove, PruneRmdir
<1>7. CASE Log(p)
  BY <1>7 DEF Log, LogMkdir, LogAppend
<1>8. CASE Killed(p)
  BY <1>8 DEF Killed
<1> QED
  BY <1>1, <1>2, <1>3, <1>4, <1>5, <1>6, <1>7, <1>8 DEF Process

\* A command without --session goes on with the newest that it found, or with
\* the only one.
LEMMA ResolveChooses ==
  ASSUME TypeOK, NEW p \in Procs, Resolve(p)
  PROVE  /\ pc'[p] \in {"raised", "resolved"}
         /\ pc'[p] = "resolved" => sid'[p] \in found[p] /\ \A s \in found[p] : s <= sid'[p]
<1>1. found[p] \in SUBSET Sessions
  BY DEF TypeOK
<1>2. CASE found[p] = {}
  BY <1>2 DEF TypeOK, Resolve, Goto
<1>3. CASE found[p] # {}
  <2>1. sid'[p] = Max(found[p]) /\ pc'[p] = "resolved"
    BY <1>3 DEF TypeOK, Resolve, Goto
  <2> QED
    BY <1>1, <1>3, <2>1, NewestIsThere
<1> QED
  BY <1>2, <1>3

LEMMA StopChooses ==
  ASSUME TypeOK, NEW p \in Procs, StopSole(p)
  PROVE  /\ pc'[p] \in {"raised", "kill_app"}
         /\ pc'[p] = "kill_app" => sid'[p] \in found[p] /\ \A s \in found[p] : s = sid'[p]
<1>1. found[p] \in SUBSET Sessions /\ IsFiniteSet(found[p])
  <2>1. IsFiniteSet(Sessions)
    BY FS_Interval, SessionAssumption DEF Sessions
  <2> QED
    BY <2>1, FS_Subset DEF TypeOK
<1>2. CASE Cardinality(found[p]) # 1
  BY <1>2 DEF TypeOK, StopSole, Goto
<1>3. CASE Cardinality(found[p]) = 1
  <2>1. sid'[p] = Max(found[p]) /\ pc'[p] = "kill_app"
    BY <1>3 DEF TypeOK, StopSole, Goto
  <2>2. PICK x : found[p] = {x}
    BY <1>1, <1>3, FS_Singleton
  <2>3. Max(found[p]) \in found[p]
    BY <1>1, <2>2, NewestIsThere
  <2> QED
    BY <2>1, <2>2, <2>3
<1> QED
  BY <1>2, <1>3

\* A command that is at work on a session goes on with that session.
LEMMA SessionIsKept ==
  ASSUME TypeOK, HasSession, [Next]_vars
  PROVE  HasSession'
<1> USE DEF HasSession, Goto, Steps, Ended
<1>0. 0 \notin Sessions
  BY DEF Sessions
<1>1. ASSUME NEW p \in Procs, Process(p) \/ Killed(p) PROVE HasSession'
  <2> SUFFICES (pc'[p] \in Steps \ {"scan", "pick", "probe"} => sid'[p] # 0) /\ pc'[p] # "idle"
    BY <1>1, OneMoves
  <2>1. CASE Start(p)
    BY <1>0, <2>1 DEF TypeOK, host, store, locals, Start, StartBegin, StartFails
  <2>2. CASE Resize(p)
    BY <1>0, <2>2 DEF TypeOK, host, store, locals, Resize, ResizeLoad, ResizeDisplay
  <2>3. CASE Save(p)
    BY <1>0, <2>3 DEF TypeOK, host, store, locals, Save, SaveMkdir, SaveOpen, SaveOpenFails, SaveWrite
  <2>4. CASE Scan(p)
    <3>1. CASE ScanBegin(p) \/ ScanRead(p) \/ ScanLoaded(p) \/ ScanProbe(p)
      <4>1. pc'[p] \in {"scan", "probe", "raised"}
        BY <3>1 DEF TypeOK, ScanBegin, ScanRead, ScanLoaded, ScanProbe
      <4> QED
        BY <4>1
    <3>4. CASE ScanLoad(p)
      BY <1>0, <3>4 DEF TypeOK, ScanLoad
    <3>2. CASE Resolve(p)
      BY <1>0, <3>2, ResolveChooses DEF TypeOK
    <3>3. CASE UseResolved(p)
      BY <3>3 DEF UseResolved, TypeOK, locals
    <3> QED
      BY <2>4, <3>1, <3>2, <3>3, <3>4 DEF Scan
  <2>5. CASE Stop(p)
    <3>1. CASE StopSole(p)
      BY <1>0, <3>1, StopChooses DEF TypeOK
    <3>2. CASE StopNamed(p)
      BY <1>0, <3>2 DEF StopNamed, TypeOK
    <3>3. CASE KillApp(p) \/ KillXvfb(p)
      BY <3>3 DEF KillApp, KillXvfb, TypeOK, locals
    <3> QED
      BY <2>5, <3>1, <3>2, <3>3 DEF Stop
  <2>6. CASE Prune(p)
    <3>1. CASE PruneBegin(p) \/ PrunePick(p) \/ PruneEnd(p)
      BY <1>0, <3>1 DEF TypeOK, locals, PruneBegin, PrunePick, PruneEnd
    <3>2. CASE PruneLoad(p) \/ PruneRead(p) \/ PruneJudge(p) \/ PruneStat(p)
      BY <3>2 DEF TypeOK, locals, PruneLoad, PruneRead, PruneJudge, PruneStat
    <3>3. CASE PruneRemove(p) \/ PruneRmdir(p)
      BY <3>3 DEF TypeOK, locals, PruneRemove, PruneRmdir
    <3> QED
      BY <2>6, <3>1, <3>2, <3>3 DEF Prune
  <2>7. CASE Log(p)
    BY <1>0, <2>7 DEF TypeOK, host, store, locals, Log, LogMkdir, LogAppend
  <2>8. CASE Killed(p)
    BY <2>8 DEF Killed, TypeOK
  <2> QED
    BY <1>1, <2>1, <2>2, <2>3, <2>4, <2>5, <2>6, <2>7, <2>8 DEF Process
<1>2. ASSUME NEW s \in Sessions, Dies(s) \/ Ages(s) PROVE HasSession'
  BY <1>2 DEF Dies, Ages, locals
<1>3. CASE UNCHANGED vars
  BY <1>3 DEF vars, locals
<1> QED
  BY <1>1, <1>2, <1>3 DEF Next

\* Whatever commands run on the store, however many of them are killed and
\* when, each of its variables has its type; in particular a command that
\* chooses a session chooses one that exists.
THEOREM StoreTypeCorrect == Spec => []TypeOK
<1>1. Init => TypeOK /\ HasSession
  BY TypeAtInit DEF Init, HasSession, Steps
<1>2. TypeOK /\ HasSession /\ [Next]_vars => (TypeOK /\ HasSession)'
  BY TypeIsKept, SessionIsKept
<1> QED
  BY <1>1, <1>2, PTL DEF Spec
-----------------------------------------------------------------------------
(***************************************************************************)
(* What a step does to the sessions.                                       *)
(***************************************************************************)

\* Every command takes its own steps only.
LEMMA StepsAreKept ==
  ASSUME TypeOK, StepsOfCommands, [Next]_vars
  PROVE  StepsOfCommands'
<1> USE DEF StepsOfCommands, Goto
<1>1. ASSUME NEW p \in Procs, Process(p) \/ Killed(p) PROVE StepsOfCommands'
  <2> SUFFICES
        /\ pc'[p] \in {"mkdir", "open", "write"} => Command[p] \in {"start", "resize"}
        /\ pc'[p] = "resize" => Command[p] = "resize"
        /\ pc'[p] \in {"scan", "probe", "resolved", "kill_app", "kill_xvfb"}
             => Command[p] \in {"resolve", "stop"}
        /\ pc'[p] = "read" => Command[p] \in {"resolve", "stop", "prune"}
        /\ pc'[p] \in {"pick", "load", "judge", "stat", "remove", "rmdir"} => Command[p] = "prune"
    BY <1>1, OneMoves
  <2>1. CASE Start(p)
    BY <2>1 DEF TypeOK, Runs, Start, StartBegin, StartFails
  <2>2. CASE Resize(p)
    BY <2>2 DEF TypeOK, Runs, Resize, ResizeLoad, ResizeDisplay
  <2>3. CASE Save(p)
    BY <2>3 DEF TypeOK, Runs, Save, SaveMkdir, SaveOpen, SaveOpenFails, SaveWrite
  <2>4. CASE Scan(p)
    <3>1. CASE ScanBegin(p) \/ ScanLoad(p) \/ ScanRead(p)
      BY <3>1 DEF TypeOK, Runs, ScanBegin, ScanLoad, ScanRead
    <3>2. CASE ScanLoaded(p) \/ ScanProbe(p)
      BY <3>2 DEF TypeOK, ScanLoaded, ScanProbe
    <3>3. CASE Resolve(p)
      BY <3>3, ResolveChooses DEF Resolve
    <3>4. CASE UseResolved(p)
      BY <3>4 DEF UseResolved, TypeOK
    <3> QED
      BY <2>4, <3>1, <3>2, <3>3, <3>4 DEF Scan
  <2>5. CASE Stop(p)
    BY <2>5 DEF TypeOK, Runs, Stop, StopSole, StopNamed, KillApp, KillXvfb
  <2>6. CASE Prune(p)
    <3>1. CASE PruneBegin(p) \/ PrunePick(p) \/ PruneEnd(p) \/ PruneLoad(p)
      BY <3>1 DEF TypeOK, Runs, PruneBegin, PrunePick, PruneEnd, PruneLoad
    <3>2. CASE PruneRead(p) \/ PruneJudge(p) \/ PruneStat(p)
      <4>1. pc[p] \in {"read", "judge", "stat"} /\ pc'[p] \in {"judge", "remove", "pick", "raised"}
        BY <3>2 DEF TypeOK, PruneRead, PruneJudge, PruneStat
      <4>2. Command[p] = "prune"
        BY <3>2 DEF PruneRead, PruneJudge, PruneStat
      <4> QED
        BY <4>1, <4>2
    <3>3. CASE PruneRemove(p) \/ PruneRmdir(p)
      BY <3>3 DEF TypeOK, PruneRemove, PruneRmdir
    <3> QED
      BY <2>6, <3>1, <3>2, <3>3 DEF Prune
  <2>7. CASE Log(p)
    BY <2>7 DEF TypeOK, Runs, Log, LogMkdir, LogAppend
  <2>8. CASE Killed(p)
    BY <2>8 DEF Killed, TypeOK
  <2> QED
    BY <1>1, <2>1, <2>2, <2>3, <2>4, <2>5, <2>6, <2>7, <2>8 DEF Process
<1>2. ASSUME NEW s \in Sessions, Dies(s) \/ Ages(s) PROVE StepsOfCommands'
  BY <1>2 DEF Dies, Ages
<1>3. CASE UNCHANGED vars
  BY <1>3 DEF vars
<1> QED
  BY <1>1, <1>2, <1>3 DEF Next

\* Only these steps write to the store or change the stage of a session.
Writes(p) ==
  \/ StartBegin(p) \/ StartFails(p)
  \/ SaveMkdir(p) \/ SaveOpen(p) \/ SaveWrite(p)
  \/ PruneRemove(p) \/ PruneRmdir(p)
  \/ LogMkdir(p) \/ LogAppend(p)

\* In all others nothing new runs, and nobody starts, opens or removes anything.
LEMMA OthersOnlyRead ==
  ASSUME TypeOK, NEW p \in Procs, Process(p) \/ Killed(p), ~ Writes(p)
  PROVE  /\ UNCHANGED <<stage, store>>
         /\ \A s \in Sessions : live'[s] \subseteq live[s]
         /\ \A q \in Procs : fd'[q] => fd[q]
<1> USE DEF Writes, Goto, host, locals, TypeOK
<1>1. CASE Start(p)
  BY <1>1 DEF Start
<1>2. CASE Resize(p)
  BY <1>2 DEF Resize, ResizeLoad, ResizeDisplay
<1>3. CASE Save(p)
  BY <1>3 DEF Save, SaveOpenFails
<1>4. CASE Scan(p)
  BY <1>4 DEF Scan, ScanBegin, ScanLoad, ScanRead, ScanLoaded, ScanProbe, Resolve, UseResolved
<1>5. CASE Stop(p)
  BY <1>5 DEF Stop, StopSole, StopNamed, KillApp, KillXvfb
<1>6. CASE Prune(p)
  BY <1>6 DEF Prune, PruneBegin, PrunePick, PruneEnd, PruneLoad, PruneRead, PruneJudge, PruneStat
<1>7. CASE Log(p)
  BY <1>7 DEF Log
<1>8. CASE Killed(p)
  BY <1>8 DEF Killed
<1> QED
  BY <1>1, <1>2, <1>3, <1>4, <1>5, <1>6, <1>7, <1>8 DEF Process

\* A command at work on a session has one of the sessions.
LEMMA SessionIsThere ==
  ASSUME TypeOK, HasSession, NEW p \in Procs, pc[p] \in Steps \ {"scan", "pick", "probe"}
  PROVE  sid[p] \in Sessions
BY SessionAssumption DEF TypeOK, HasSession, Sessions

\* A session that was started stays one that was started.
LEMMA KnownStays ==
  ASSUME TypeOK, [Next]_vars, NEW s \in Sessions, Known(s)
  PROVE  Known(s)'
<1> USE DEF Known, TypeOK, host
<1>1. ASSUME NEW p \in Procs, Process(p) \/ Killed(p) PROVE Known(s)'
  <2>1. CASE StartBegin(p) \/ StartFails(p) \/ SaveWrite(p)
    BY <2>1 DEF StartBegin, StartFails, SaveWrite
  <2>2. CASE Writes(p) /\ ~ (StartBegin(p) \/ StartFails(p) \/ SaveWrite(p))
    BY <2>2 DEF Writes, SaveMkdir, SaveOpen, PruneRemove, PruneRmdir, LogMkdir, LogAppend
  <2>3. CASE ~ Writes(p)
    BY <1>1, <2>3, OthersOnlyRead
  <2> QED
    BY <2>1, <2>2, <2>3
<1>2. ASSUME NEW t \in Sessions, Dies(t) \/ Ages(t) PROVE Known(s)'
  BY <1>2 DEF Dies, Ages
<1> QED
  BY <1>1, <1>2 DEF Next, vars

\* A session that was not up is up only after a start that has saved it.
LEMMA UpIsNew ==
  ASSUME TypeOK, HasSession, [Next]_vars, NEW s \in Sessions, Up(s)', ~ Up(s)
  PROVE  \E p \in Procs : SaveWrite(p) /\ Starting(p, s)
<1> USE DEF Up, IsSessionActive, TypeOK, host
<1>1. ASSUME NEW p \in Procs, Process(p) \/ Killed(p) PROVE SaveWrite(p) /\ Starting(p, s)
  <2>1. CASE StartBegin(p)
    BY <2>1 DEF StartBegin
  <2>2. CASE StartFails(p)
    BY <2>2 DEF StartFails
  <2>3. CASE SaveWrite(p)
    BY <2>3 DEF SaveWrite, Starting
  <2>4. CASE Writes(p) /\ ~ (StartBegin(p) \/ StartFails(p) \/ SaveWrite(p))
    BY <2>4 DEF Writes, SaveMkdir, SaveOpen, PruneRemove, PruneRmdir, LogMkdir, LogAppend
  <2>5. CASE ~ Writes(p)
    <3>1. stage' = stage /\ live'[s] \subseteq live[s]
      BY <1>1, <2>5, OthersOnlyRead
    <3> QED
      BY <3>1
  <2> QED
    BY <2>1, <2>2, <2>3, <2>4, <2>5
<1>2. ASSUME NEW t \in Sessions, Dies(t) \/ Ages(t) PROVE FALSE
  BY <1>2 DEF Dies, Ages
<1> QED
  BY <1>1, <1>2 DEF Next, vars

\* A session is being started only from a step on that starts it, and it was
\* no session before.
LEMMA StartingIsNew ==
  ASSUME TypeOK, HasSession, StepsOfCommands, [Next]_vars,
         NEW q \in Procs, NEW s \in Sessions, Starting(q, s)', ~ Starting(q, s)
  PROVE  StartBegin(q) /\ stage[s] = "no" /\ stage' = [stage EXCEPT ![s] = "starting"]
         /\ sid'[q] = s /\ pc'[q] = "mkdir"
<1> USE DEF Starting, Goto
<1>1. ASSUME NEW p \in Procs, Process(p) \/ Killed(p)
      PROVE  StartBegin(q) /\ stage[s] = "no" /\ stage' = [stage EXCEPT ![s] = "starting"]
             /\ sid'[q] = s /\ pc'[q] = "mkdir"
  <2>1. p = q
    BY <1>1, OneMoves
  <2>2. CASE Start(p)
    BY <2>1, <2>2 DEF TypeOK, Start, StartBegin, StartFails
  <2>3. CASE Resize(p)
    BY <2>1, <2>3 DEF TypeOK, Resize, ResizeLoad, ResizeDisplay, StepsOfCommands, Runs
  <2>4. CASE Save(p)
    BY <2>1, <2>4 DEF TypeOK, Save, SaveMkdir, SaveOpen, SaveOpenFails, SaveWrite, locals
  <2>5. CASE Scan(p) \/ Stop(p) \/ Prune(p) \/ Log(p) \/ Killed(p)
    <3>1. pc'[p] \notin {"mkdir", "open", "write"}
      <4>1. CASE Scan(p)
        <5>1. CASE Resolve(p)
          BY <5>1, ResolveChooses
        <5> QED
          BY <4>1, <5>1 DEF TypeOK, Scan, ScanBegin, ScanLoad, ScanRead, ScanLoaded, ScanProbe,
               UseResolved
      <4>2. CASE Stop(p)
        <5>1. CASE StopSole(p)
          BY <5>1, StopChooses
        <5> QED
          BY <4>2, <5>1 DEF TypeOK, Stop, StopNamed, KillApp, KillXvfb
      <4>3. CASE Prune(p)
        BY <4>3 DEF TypeOK, Prune, PruneBegin, PrunePick, PruneEnd, PruneLoad, PruneRead,
             PruneJudge, PruneStat, PruneRemove, PruneRmdir
      <4>4. CASE Log(p) \/ Killed(p)
        BY <4>4 DEF TypeOK, Log, LogMkdir, LogAppend, Killed
      <4> QED
        BY <2>5, <4>1, <4>2, <4>3, <4>4
    <3> QED
      BY <2>1, <3>1
  <2> QED
    BY <1>1, <2>2, <2>3, <2>4, <2>5 DEF Process
<1>2. ASSUME NEW t \in Sessions, Dies(t) \/ Ages(t) PROVE FALSE
  BY <1>2 DEF Dies, Ages, locals
<1> QED
  BY <1>1, <1>2 DEF Next, vars, locals

\* Who is condemned stays condemned: it is never up again.
LEMMA CondemnedStays ==
  ASSUME TypeOK, HasSession, StepsOfCommands, [Next]_vars, NEW s \in Sessions, Condemned(s)
  PROVE  Condemned(s)'
<1>1. stage'[s] # "no"
  BY KnownStays DEF Condemned, Known
<1>2. ~ Up(s)'
  BY UpIsNew DEF Condemned
<1>3. \A p \in Procs : ~ Starting(p, s)'
  BY StartingIsNew DEF Condemned
<1> QED
  BY <1>1, <1>2, <1>3 DEF Condemned

\* Sessions get older only while no command runs.
LEMMA OldAtRest ==
  ASSUME TypeOK, [Next]_vars, NEW s \in Sessions
  PROVE  \/ aged'[s] \subseteq aged[s]
         \/ Known(s) /\ pc' = pc /\ \A p \in Procs : pc[p] \in {"idle"} \cup Ended
<1>1. ASSUME NEW p \in Procs, Process(p) \/ Killed(p) PROVE aged'[s] \subseteq aged[s]
  <2>1. CASE SaveMkdir(p) \/ SaveOpen(p) \/ LogMkdir(p)
    <3>1. PICK t, new : aged' = Touched(t, new)
      BY <2>1 DEF SaveMkdir, SaveOpen, LogMkdir
    <3> QED
      BY <3>1, TouchedIsYounger
  <2>2. CASE LogAppend(p)
    <3>1. aged' = Touched(sid[p], ~ log[sid[p]]) \/ aged' = aged
      BY <2>2 DEF LogAppend
    <3> QED
      BY <3>1, TouchedIsYounger
  <2>3. CASE StartBegin(p) \/ StartFails(p) \/ SaveWrite(p) \/ PruneRemove(p) \/ PruneRmdir(p)
    BY <2>3 DEF StartBegin, StartFails, SaveWrite, PruneRemove, PruneRmdir, store
  <2>4. CASE ~ Writes(p)
    BY <1>1, <2>4, OthersOnlyRead DEF store
  <2> QED
    BY <2>1, <2>2, <2>3, <2>4 DEF Writes
<1>2. ASSUME NEW t \in Sessions, Dies(t) PROVE aged'[s] \subseteq aged[s]
  BY <1>2 DEF Dies, store
<1>3. ASSUME NEW t \in Sessions, Ages(t), t = s
      PROVE  Known(s) /\ pc' = pc /\ \A p \in Procs : pc[p] \in {"idle"} \cup Ended
  BY <1>3 DEF Ages, Known
<1>4. ASSUME NEW t \in Sessions, Ages(t), t # s PROVE aged'[s] \subseteq aged[s]
  BY <1>4 DEF Ages, TypeOK
<1>5. CASE UNCHANGED vars
  BY <1>5 DEF vars, store
<1> QED
  BY <1>1, <1>2, <1>3, <1>4, <1>5 DEF Next
-----------------------------------------------------------------------------
(***************************************************************************)
(* Nothing active is lost.                                                *)
(***************************************************************************)

\* Nobody speaks of a session that was never started.
LEMMA KnownIsKept ==
  ASSUME TypeOK, HasSession, AllKnown, [Next]_vars
  PROVE  AllKnown'
<1> USE DEF TypeOK, host, store, locals, Known
<1>1. ASSUME NEW s \in Sessions, dir'[s] \/ aged'[s] # {} PROVE Known(s)'
  <2> SUFFICES ASSUME ~ Known(s) PROVE Known(s)'
    BY KnownStays
  <2>1. ~ dir[s] /\ aged[s] = {}
    BY DEF AllKnown
  <2>2. aged'[s] = {}
    BY <2>1, OldAtRest
  <2>3. ASSUME NEW p \in Procs, Process(p) \/ Killed(p), dir'[s] PROVE Known(s)
    <3>1. CASE SaveMkdir(p) \/ LogMkdir(p)
      <4>1. sid[p] \in Sessions /\ dir' = [dir EXCEPT ![sid[p]] = TRUE]
        BY <3>1, SessionIsThere DEF SaveMkdir, LogMkdir, Steps
      <4>2. sid[p] # 0
        BY <4>1 DEF Sessions
      <4> QED
        BY <2>1, <2>3, <4>1, <4>2 DEF AllKnown
    <3>2. CASE Writes(p) /\ ~ (SaveMkdir(p) \/ LogMkdir(p))
      BY <2>1, <2>3, <3>2 DEF Writes, StartBegin, StartFails, SaveOpen, SaveWrite, PruneRemove,
           PruneRmdir, LogAppend
    <3>3. CASE ~ Writes(p)
      BY <2>1, <2>3, <3>3, OthersOnlyRead
    <3> QED
      BY <3>1, <3>2, <3>3
  <2>4. ASSUME NEW t \in Sessions, Dies(t) \/ Ages(t) PROVE dir' = dir
    BY <2>4 DEF Dies, Ages
  <2> QED
    BY <1>1, <2>1, <2>2, <2>3, <2>4 DEF Next, vars
<1>2. ASSUME NEW p \in Procs, Process(p) \/ Killed(p)
      PROVE  /\ sid'[p] # 0 => stage'[sid'[p]] # "no"
             /\ \A s \in todo'[p] \cup found'[p] : stage'[s] # "no"
  <2>0. \A s \in Sessions : stage[s] # "no" => stage'[s] # "no"
    BY KnownStays
  <2>1. \A s \in todo[p] \cup found[p] : s \in Sessions /\ stage'[s] # "no"
    BY <2>0 DEF AllKnown
  <2>2. sid[p] # 0 => sid[p] \in Sessions /\ stage'[sid[p]] # "no"
    BY <2>0, SessionAssumption DEF AllKnown, Sessions
  <2>3. CASE StartBegin(p)
    <3>1. sid'[p] \in Sessions /\ stage'[sid'[p]] # "no" /\ todo' = todo /\ found' = found
      BY <2>3 DEF StartBegin
    <3> QED
      BY <2>1, <3>1
  <2>4. CASE ResizeLoad(p) \/ StopNamed(p)
    <3>1. sid'[p] \in Sessions /\ stage[sid'[p]] # "no" /\ todo' = todo /\ found' = found
      BY <2>4 DEF ResizeLoad, StopNamed
    <3> QED
      BY <2>0, <2>1, <3>1
  <2>5. CASE ScanBegin(p) \/ PruneBegin(p)
    <3>1. sid' = sid /\ found' = found /\ todo'[p] = {s \in Sessions : dir[s]}
      BY <2>5 DEF ScanBegin, PruneBegin
    <3> QED
      BY <2>0, <2>1, <2>2, <3>1 DEF AllKnown
  <2>6. CASE ScanLoad(p) \/ PrunePick(p)
    <3>1. sid'[p] \in todo[p] /\ todo'[p] \subseteq todo[p] /\ found' = found
      BY <2>6 DEF ScanLoad, PrunePick
    <3> QED
      BY <2>1, <3>1
  <2>7. CASE ScanRead(p)
    <3>1. sid' = sid /\ todo' = todo /\ found'[p] \subseteq found[p] \cup {sid[p]} /\ sid[p] # 0
      BY <2>7 DEF ScanRead, HasSession, Steps
    <3> QED
      BY <2>1, <2>2, <3>1
  <2>8. CASE ScanLoaded(p) \/ ScanProbe(p)
    <3>1. sid' = sid /\ todo'[p] \cup found'[p] \subseteq todo[p] \cup found[p]
      <4>1. CASE ScanLoaded(p)
        BY <4>1 DEF ScanLoaded
      <4>2. CASE ScanProbe(p)
        <5>1. PICK s \in todo[p] :
                /\ todo' = [todo EXCEPT ![p] = @ \ {s}] /\ sid' = sid
                /\ \/ found' = [found EXCEPT ![p] = @ \cup {s}]
                   \/ found' = [found EXCEPT ![p] = @]
          BY <4>2 DEF ScanProbe
        <5> QED
          BY <5>1
      <4> QED
        BY <2>8, <4>1, <4>2
    <3> QED
      BY <2>1, <2>2, <3>1
  <2>9. CASE Resolve(p) \/ StopSole(p)
    <3>1. todo' = todo /\ found' = found /\ (sid'[p] = 0 \/ sid'[p] \in found[p])
      <4>1. CASE Resolve(p)
        <5>1. pc'[p] = "raised" => sid'[p] = 0
          BY <4>1 DEF Resolve, Goto
        <5> QED
          BY <4>1, <5>1, ResolveChooses DEF Resolve
      <4>2. CASE StopSole(p)
        <5>1. pc'[p] = "raised" => sid'[p] = 0
          BY <4>2 DEF StopSole, Goto
        <5> QED
          BY <4>2, <5>1, StopChooses DEF StopSole
      <4> QED
        BY <2>9, <4>1, <4>2
    <3> QED
      BY <2>1, <3>1
  <2>10. CASE UNCHANGED <<sid, todo, found>>
    BY <2>1, <2>2, <2>10
  <2>11. \/ StartBegin(p) \/ ResizeLoad(p) \/ StopNamed(p) \/ ScanBegin(p) \/ PruneBegin(p)
         \/ ScanLoad(p) \/ PrunePick(p) \/ ScanRead(p) \/ ScanLoaded(p) \/ ScanProbe(p)
         \/ Resolve(p) \/ StopSole(p) \/ UNCHANGED <<sid, todo, found>>
    BY <1>2 DEF Process, Start, Resize, Save, Scan, Stop, Prune, Log, Killed,
         StartFails, ResizeDisplay, SaveMkdir, SaveOpen, SaveOpenFails, SaveWrite, UseResolved,
         KillApp, KillXvfb, PruneEnd, PruneLoad, PruneRead, PruneJudge, PruneStat, PruneRemove,
         PruneRmdir, LogMkdir, LogAppend
  <2> QED
    BY <2>3, <2>4, <2>5, <2>6, <2>7, <2>8, <2>9, <2>10, <2>11
<1>3. ASSUME NEW p \in Procs
      PROVE  /\ sid'[p] # 0 => stage'[sid'[p]] # "no"
             /\ \A s \in todo'[p] \cup found'[p] : stage'[s] # "no"
  <2>1. ASSUME sid'[p] = sid[p], todo'[p] = todo[p], found'[p] = found[p]
        PROVE  /\ sid'[p] # 0 => stage'[sid'[p]] # "no"
               /\ \A s \in todo'[p] \cup found'[p] : stage'[s] # "no"
    <3>1. sid[p] # 0 => sid[p] \in Sessions
      BY SessionAssumption DEF Sessions
    <3>2. \A s \in todo[p] \cup found[p] : s \in Sessions
      OBVIOUS
    <3> QED
      BY <2>1, <3>1, <3>2, KnownStays DEF AllKnown
  <2>2. ASSUME NEW q \in Procs, Process(q) \/ Killed(q), q # p
        PROVE  sid'[p] = sid[p] /\ todo'[p] = todo[p] /\ found'[p] = found[p]
    BY <2>2, OneMoves
  <2>3. ASSUME NEW t \in Sessions, Dies(t) \/ Ages(t)
        PROVE  sid'[p] = sid[p] /\ todo'[p] = todo[p] /\ found'[p] = found[p]
    BY <2>3 DEF Dies, Ages
  <2> QED
    BY <1>2, <2>1, <2>2, <2>3 DEF Next, vars
<1> QED
  BY <1>1, <1>3 DEF AllKnown

\* A command that writes a record does nothing else meanwhile.
LEMMA WriterWrites ==
  ASSUME TypeOK, NEW p \in Procs, Process(p) \/ Killed(p),
         pc[p] \in {"write", "raised"}, fd'[p]
  PROVE  SaveWrite(p) \/ StartFails(p)
<1>1. ~ Killed(p)
  BY DEF Killed, TypeOK
<1> QED
  BY <1>1 DEF Process, Start, StartBegin, Runs, Resize, ResizeLoad, ResizeDisplay,
     Save, SaveMkdir, SaveOpen, SaveOpenFails, Scan, ScanBegin, ScanLoad, ScanRead, ScanLoaded,
     ScanProbe, Resolve, UseResolved, Stop, StopSole, StopNamed, KillApp, KillXvfb,
     Prune, PruneBegin, PrunePick, PruneEnd, PruneLoad, PruneRead, PruneJudge, PruneStat,
     PruneRemove, PruneRmdir, Log, LogMkdir, LogAppend

\* Records stay in directories, and those that are being written stay records.
LEMMA LinkedIsKept ==
  ASSUME TypeOK, HasSession, RecordsLinked, [Next]_vars
  PROVE  RecordsLinked'
<1> DEFINE Held(q) == /\ pc'[q] \in {"write", "raised"}
                      /\ sid'[q] # 0 /\ file'[sid'[q]] # "none"
<1>1. ASSUME NEW p \in Procs, Process(p) \/ Killed(p)
      PROVE  \A s \in Sessions : file'[s] # "none" => dir'[s]
  <2> USE DEF TypeOK, RecordsLinked
  <2>1. CASE SaveMkdir(p) \/ LogMkdir(p)
    <3>1. file' = file /\ dir' = [dir EXCEPT ![sid[p]] = TRUE]
      BY <2>1 DEF SaveMkdir, LogMkdir
    <3> QED
      BY <3>1
  <2>2. CASE SaveOpen(p)
    BY <2>2 DEF SaveOpen
  <2>3. CASE SaveWrite(p)
    <3>1. dir' = dir /\ \A s \in Sessions : file'[s] # "none" => file[s] # "none"
      BY <2>3 DEF SaveWrite
    <3> QED
      BY <3>1
  <2>4. CASE PruneRemove(p)
    <3>1. dir' = dir /\ \A s \in Sessions : file'[s] # "none" => file[s] # "none"
      BY <2>4 DEF PruneRemove
    <3> QED
      BY <3>1
  <2>5. CASE PruneRmdir(p)
    <3>1. file' = file /\ \A s \in Sessions : dir[s] /\ ~ dir'[s] => file[s] = "none"
      BY <2>5 DEF PruneRmdir
    <3> QED
      BY <3>1
  <2>6. CASE StartBegin(p) \/ StartFails(p) \/ LogAppend(p)
    BY <2>6 DEF StartBegin, StartFails, LogAppend, store
  <2>7. CASE ~ Writes(p)
    BY <1>1, <2>7, OthersOnlyRead DEF store
  <2> QED
    BY <2>1, <2>2, <2>3, <2>4, <2>5, <2>6, <2>7 DEF Writes
<1>2. ASSUME NEW p \in Procs, Process(p) \/ Killed(p), NEW q \in Procs, fd'[q] PROVE Held(q)
  <2>1. CASE SaveOpen(p) /\ p = q
    <3>1. sid[p] \in Sessions /\ sid[p] # 0
      BY <2>1, SessionIsThere DEF SaveOpen, Steps, Sessions
    <3> QED
      BY <2>1, <3>1 DEF SaveOpen, Goto, TypeOK
  <2>2. CASE SaveWrite(p) /\ p = q
    BY <1>2, <2>2 DEF SaveWrite, TypeOK
  <2>3. CASE ~ (SaveOpen(p) /\ p = q) /\ ~ (SaveWrite(p) /\ p = q)
    <3>1. fd[q] /\ sid[q] # 0 /\ file[sid[q]] # "none" /\ pc[q] \in {"write", "raised"}
      <4>1. fd[q]
        <5>1. CASE p # q
          BY <1>2, <5>1, OneMoves
        <5>2. CASE p = q /\ Writes(p)
          BY <1>2, <2>3, <5>2 DEF TypeOK, Writes, StartBegin, StartFails, SaveMkdir, PruneRemove,
               PruneRmdir, LogMkdir, LogAppend, locals
        <5>3. CASE ~ Writes(p)
          BY <1>2, <5>3, OthersOnlyRead
        <5> QED
          BY <5>1, <5>2, <5>3
      <4> QED
        BY <4>1 DEF RecordsLinked
    <3>2. sid'[q] = sid[q] /\ pc'[q] \in {"write", "raised"}
      <4>1. CASE p # q
        BY <1>2, <3>1, <4>1, OneMoves
      <4>2. CASE p = q
        <5>1. StartFails(p)
          BY <1>2, <2>3, <3>1, <4>2, WriterWrites
        <5> QED
          BY <4>2, <5>1 DEF StartFails, Goto, TypeOK, locals
      <4> QED
        BY <4>1, <4>2
    <3>3. sid[q] \in Sessions
      BY <3>1, SessionAssumption DEF TypeOK, Sessions
    <3>4. file'[sid[q]] # "none"
      <4>1. CASE SaveOpen(p)
        BY <3>1, <3>3, <4>1 DEF SaveOpen, TypeOK
      <4>2. CASE SaveWrite(p)
        BY <3>1, <3>3, <4>2 DEF SaveWrite, TypeOK
      <4>3. CASE PruneRemove(p)
        <5>1. CASE dir[sid[p]]
          BY <1>2, <3>1, <3>3, <4>3, <5>1 DEF PruneRemove, TypeOK
        <5>2. CASE ~ dir[sid[p]]
          BY <3>1, <4>3, <5>2 DEF PruneRemove
        <5> QED
          BY <5>1, <5>2
      <4>4. CASE StartBegin(p) \/ StartFails(p) \/ SaveMkdir(p) \/ PruneRmdir(p)
                 \/ LogMkdir(p) \/ LogAppend(p)
        BY <3>1, <4>4 DEF StartBegin, StartFails, SaveMkdir, PruneRmdir, LogMkdir, LogAppend, store
      <4>5. CASE ~ Writes(p)
        BY <1>2, <3>1, <4>5, OthersOnlyRead DEF store
      <4> QED
        BY <4>1, <4>2, <4>3, <4>4, <4>5 DEF Writes
    <3> QED
      BY <3>1, <3>2, <3>4
  <2> QED
    BY <2>1, <2>2, <2>3
<1>3. ASSUME UNCHANGED <<dir, file, fd, pc, sid>> PROVE RecordsLinked'
  BY <1>3 DEF RecordsLinked
<1>4. ASSUME NEW t \in Sessions, Dies(t) \/ Ages(t) PROVE RecordsLinked'
  BY <1>3, <1>4 DEF Dies, Ages, store, locals
<1>5. CASE UNCHANGED vars
  BY <1>3, <1>5 DEF vars, store, locals
<1> QED
  BY <1>1, <1>2, <1>4, <1>5 DEF Next, RecordsLinked

\* What is being started stays young, and is started by one command.
LEMMA YoungIsKept ==
  ASSUME TypeOK, HasSession, StepsOfCommands, AllKnown, StartsAreYoung, [Next]_vars
  PROVE  StartsAreYoung'
<1> SUFFICES ASSUME NEW q \in Procs, NEW s \in Sessions, Starting(q, s)'
             PROVE  /\ stage'[s] = "starting" /\ aged'[s] = {}
                    /\ \A r \in Procs : Starting(r, s)' => r = q
  BY DEF StartsAreYoung
<1>0. 0 \notin Sessions
  BY DEF Sessions
<1>1. CASE ~ Starting(q, s)
  <2>1. /\ StartBegin(q) /\ stage[s] = "no" /\ stage' = [stage EXCEPT ![s] = "starting"]
        /\ pc'[q] = "mkdir"
    BY <1>1, StartingIsNew
  <2>2. aged[s] = {} /\ \A r \in Procs : sid[r] # s
    BY <1>0, <2>1 DEF AllKnown, Known
  <2>3. aged'[s] = {}
    BY <2>1, <2>2, OldAtRest DEF Known
  <2>4. ASSUME NEW r \in Procs, Starting(r, s)', r # q PROVE FALSE
    <3>1. sid'[r] = sid[r]
      BY <2>1, <2>4, OneMoves DEF Process, Start
    <3> QED
      BY <2>2, <2>4, <3>1 DEF Starting
  <2>5. stage'[s] = "starting"
    BY <2>1 DEF TypeOK
  <2> QED
    BY <2>1, <2>3, <2>4, <2>5
<1>2. CASE Starting(q, s)
  <2>1. /\ stage[s] = "starting" /\ aged[s] = {}
        /\ \A r \in Procs : Starting(r, s) => r = q
    BY <1>2 DEF StartsAreYoung
  <2>2. pc[q] \in {"mkdir", "open", "write"} /\ sid[q] = s /\ Command[q] = "start"
        /\ pc'[q] \in {"mkdir", "open", "write"}
    BY <1>2 DEF Starting
  <2>3. aged'[s] = {}
    BY <2>1, <2>2, OldAtRest DEF Ended
  <2>4. \A r \in Procs : Starting(r, s)' => r = q
    BY <2>1, StartingIsNew
  <2>5. ASSUME NEW p \in Procs, Process(p) \/ Killed(p) PROVE stage'[s] = "starting"
    <3>1. CASE StartBegin(p)
      BY <2>1, <3>1 DEF StartBegin, TypeOK
    <3>2. CASE StartFails(p)
      <4>1. p # q /\ sid[p] # s
        BY <2>1, <2>2, <3>2 DEF StartFails, TypeOK, Goto, Starting
      <4> QED
        BY <2>1, <3>2, <4>1 DEF StartFails, TypeOK
    <3>3. CASE SaveWrite(p)
      <4>1. p # q
        BY <2>2, <3>3 DEF SaveWrite, TypeOK, Goto
      <4>2. Command[p] = "start" => sid[p] # s
        BY <2>1, <3>3, <4>1 DEF SaveWrite, Starting
      <4> QED
        BY <2>1, <3>3, <4>2 DEF SaveWrite, TypeOK
    <3>4. CASE SaveMkdir(p) \/ SaveOpen(p) \/ PruneRemove(p) \/ PruneRmdir(p) \/ LogMkdir(p)
               \/ LogAppend(p)
      BY <2>1, <3>4 DEF SaveMkdir, SaveOpen, PruneRemove, PruneRmdir, LogMkdir, LogAppend, host
    <3>5. CASE ~ Writes(p)
      BY <2>1, <2>5, <3>5, OthersOnlyRead
    <3> QED
      BY <3>1, <3>2, <3>3, <3>4, <3>5 DEF Writes
  <2>6. ASSUME NEW t \in Sessions, Dies(t) \/ Ages(t) PROVE stage' = stage
    BY <2>6 DEF Dies, Ages, host
  <2> QED
    BY <2>1, <2>3, <2>4, <2>5, <2>6 DEF Next, vars, host
<1> QED
  BY <1>1, <1>2

\* No step but its own opens a file for writing.
LEMMA OnlySaveOpens ==
  ASSUME TypeOK, HasSession, StepsOfCommands, NEW q \in Procs, Process(q) \/ Killed(q),
         pc'[q] = "write"
  PROVE  SaveOpen(q)
<1>1. ~ Killed(q) /\ ~ Start(q) /\ ~ Resize(q) /\ ~ Log(q)
  BY DEF Killed, Start, StartBegin, StartFails, Resize, ResizeLoad, ResizeDisplay,
     Log, LogMkdir, LogAppend, Goto, TypeOK
<1>2. ~ Scan(q)
  <2>1. ~ Resolve(q)
    BY ResolveChooses
  <2> QED
    BY <2>1 DEF Scan, ScanBegin, ScanLoad, ScanRead, ScanLoaded, ScanProbe, UseResolved,
       Goto, TypeOK
<1>3. ~ Stop(q)
  <2>1. ~ StopSole(q)
    BY StopChooses
  <2> QED
    BY <2>1 DEF Stop, StopNamed, KillApp, KillXvfb, Goto, TypeOK
<1>4. ~ Prune(q)
  BY DEF Prune, PruneBegin, PrunePick, PruneEnd, PruneLoad, PruneRead, PruneJudge,
     PruneStat, PruneRemove, PruneRmdir, Goto, TypeOK
<1>5. ~ SaveMkdir(q) /\ ~ SaveOpenFails(q) /\ ~ SaveWrite(q)
  BY DEF SaveMkdir, SaveOpenFails, SaveWrite, Goto, TypeOK
<1> QED
  BY <1>1, <1>2, <1>3, <1>4, <1>5 DEF Process, Save

\* A prune does not remove the file that a start writes.
LEMMA OpenIsKept ==
  ASSUME TypeOK, HasSession, StepsOfCommands, StartsStayOpen, VictimsAreStale, [Next]_vars
  PROVE  StartsStayOpen'
<1> SUFFICES ASSUME NEW q \in Procs, Command[q] = "start", pc'[q] = "write" PROVE fd'[q]
  BY DEF StartsStayOpen
<1>1. ASSUME NEW p \in Procs, Process(p) \/ Killed(p) PROVE fd'[q]
  <2>1. CASE p = q
    BY <1>1, <2>1, OnlySaveOpens DEF SaveOpen, TypeOK
  <2>2. CASE p # q
    <3>1. pc[q] = "write" /\ sid[q] \in Sessions
      BY <1>1, <2>2, OneMoves, SessionIsThere DEF Steps
    <3>2. fd[q] /\ Starting(q, sid[q])
      BY <3>1 DEF StartsStayOpen, Starting
    <3>3. CASE PruneRemove(p)
      <4>1. sid[p] # sid[q]
        BY <3>1, <3>2, <3>3 DEF PruneRemove, VictimsAreStale, Condemned
      <4>2. CASE dir[sid[p]]
        BY <3>2, <3>3, <4>1, <4>2 DEF PruneRemove
      <4>3. CASE ~ dir[sid[p]]
        BY <3>2, <3>3, <4>3 DEF PruneRemove
      <4> QED
        BY <4>2, <4>3
    <3>4. CASE ~ PruneRemove(p)
      <4>1. fd'[q] = fd[q]
        BY <1>1, <2>2, <3>4 DEF Process, Killed, TypeOK, Start, StartBegin, StartFails, Resize,
           ResizeLoad, ResizeDisplay, Save, SaveMkdir, SaveOpen, SaveOpenFails, SaveWrite, Scan,
           ScanBegin, ScanLoad, ScanRead, ScanLoaded, ScanProbe, Resolve, UseResolved, Stop,
           StopSole, StopNamed, KillApp, KillXvfb, Prune, PruneBegin, PrunePick, PruneEnd,
           PruneLoad, PruneRead, PruneJudge, PruneStat, PruneRmdir, Log, LogMkdir, LogAppend,
           locals
      <4> QED
        BY <3>2, <4>1
    <3> QED
      BY <3>3, <3>4
  <2> QED
    BY <2>1, <2>2
<1>2. ASSUME UNCHANGED <<pc, fd>> PROVE fd'[q]
  BY <1>2 DEF StartsStayOpen
<1>3. ASSUME NEW t \in Sessions, Dies(t) \/ Ages(t) PROVE UNCHANGED <<pc, fd>>
  BY <1>3 DEF Dies, Ages, locals
<1> QED
  BY <1>1, <1>2, <1>3 DEF Next, vars, locals

\* What a prune is about to remove will never be up again.
LEMMA VictimsAreKept ==
  ASSUME Android = {}, TypeOK, HasSession, StepsOfCommands, AllKnown, StartsAreYoung,
         VictimsAreStale, NothingActiveIsLost, [Next]_vars
  PROVE  VictimsAreStale'
<1> SUFFICES ASSUME NEW p \in Procs, NEW s \in Sessions, sid'[p] = s
             PROVE  /\ pc'[p] \in {"remove", "rmdir"} => Condemned(s)'
                    /\ pc'[p] = "stat" => Condemned(s)' \/ "mtime" \notin aged'[s]
  BY DEF VictimsAreStale
<1>0. 0 \notin Sessions
  BY DEF Sessions
<1>1. CASE sid[p] = s /\ pc[p] = pc'[p]
  <2>1. pc[p] \in {"remove", "rmdir"} => Condemned(s)'
    BY <1>1, CondemnedStays DEF VictimsAreStale
  <2>2. pc[p] = "stat" => Condemned(s)' \/ "mtime" \notin aged'[s]
    BY <1>1, CondemnedStays, OldAtRest DEF VictimsAreStale, Ended
  <2> QED
    BY <1>1, <2>1, <2>2
<1>2. CASE ~ (sid[p] = s /\ pc[p] = pc'[p]) /\ pc'[p] \in {"remove", "rmdir", "stat"}
  <2>1. Process(p)
    <3>1. ASSUME NEW q \in Procs, Process(q) \/ Killed(q) PROVE q = p /\ Process(p)
      <4>1. q = p
        BY <1>2, <3>1, OneMoves
      <4>2. ~ Killed(p)
        BY <1>2 DEF Killed, Goto, TypeOK
      <4> QED
        BY <3>1, <4>1, <4>2
    <3>2. ASSUME NEW t \in Sessions, Dies(t) \/ Ages(t) PROVE FALSE
      BY <1>2, <3>2 DEF Dies, Ages, locals
    <3> QED
      BY <1>2, <3>1, <3>2 DEF Next, vars, locals
  <2>2. PruneJudge(p) \/ PruneStat(p) \/ PruneLoad(p) \/ PruneRemove(p)
    <3>1. ~ Start(p) /\ ~ Resize(p) /\ ~ Save(p)
      BY <1>2 DEF Start, StartBegin, StartFails, Resize, ResizeLoad, ResizeDisplay, Save,
         SaveMkdir, SaveOpen, SaveOpenFails, SaveWrite, Goto, TypeOK
    <3>2. ~ Scan(p)
      <4>1. ~ Resolve(p)
        BY <1>2, ResolveChooses
      <4> QED
        BY <1>2, <4>1 DEF Scan, ScanBegin, ScanLoad, ScanRead, ScanLoaded, ScanProbe,
           UseResolved, Goto, TypeOK
    <3>3. ~ Stop(p)
      <4>1. ~ StopSole(p)
        BY <1>2, StopChooses
      <4> QED
        BY <1>2, <4>1 DEF Stop, StopNamed, KillApp, KillXvfb, Goto, TypeOK
    <3>4. ~ Log(p)
      BY <1>2 DEF Log, LogMkdir, LogAppend, Goto, TypeOK
    <3>5. ~ (PruneBegin(p) \/ PrunePick(p) \/ PruneEnd(p) \/ PruneRead(p) \/ PruneRmdir(p))
      BY <1>2 DEF PruneBegin, PrunePick, PruneEnd, PruneRead, PruneRmdir, Goto, TypeOK
    <3> QED
      BY <2>1, <3>1, <3>2, <3>3, <3>4, <3>5 DEF Process, Prune
  <2>3. sid[p] = s /\ Known(s)
    <3>1. sid' = sid
      BY <2>2 DEF PruneJudge, PruneStat, PruneLoad, PruneRemove, locals
    <3> QED
      BY <1>0, <3>1 DEF AllKnown
  <2>4. CASE PruneJudge(p)
    <3>1. pc'[p] = "remove" => ~ IsSessionActive(s, FALSE) /\ "start" \in aged[s]
      BY <2>3, <2>4 DEF PruneJudge, Goto, TypeOK
    <3>2. pc'[p] = "remove"
      BY <1>2, <2>4 DEF PruneJudge, Goto, TypeOK
    <3>3. ~ Up(s) /\ \A q \in Procs : ~ Starting(q, s)
      BY <3>1, <3>2 DEF Up, IsSessionActive, StartsAreYoung
    <3> QED
      BY <2>3, <3>2, <3>3, CondemnedStays DEF Condemned, Known
  <2>5. CASE PruneStat(p)
    <3>1. pc'[p] = "remove" /\ pc[p] = "stat" /\ "mtime" \in aged[s]
      BY <1>2, <2>3, <2>5 DEF PruneStat, Goto, TypeOK
    <3> QED
      BY <2>3, <3>1, CondemnedStays DEF VictimsAreStale
  <2>6. CASE PruneLoad(p)
    <3>1. pc'[p] = "stat" /\ pc[p] = "load" /\ file[s] = "none"
      BY <1>2, <2>3, <2>6 DEF PruneLoad, Goto, TypeOK
    <3>2. ~ Up(s)
      BY <3>1 DEF NothingActiveIsLost
    <3>3. CASE \E q \in Procs : Starting(q, s)
      BY <3>1, <3>3, OldAtRest DEF StartsAreYoung, Ended
    <3>4. CASE \A q \in Procs : ~ Starting(q, s)
      BY <2>3, <3>1, <3>2, <3>4, CondemnedStays DEF Condemned, Known
    <3> QED
      BY <3>1, <3>3, <3>4
  <2>7. CASE PruneRemove(p)
    <3>1. pc[p] = "remove" /\ pc'[p] # "stat"
      BY <2>7 DEF PruneRemove, Goto, TypeOK
    <3> QED
      BY <1>2, <2>3, <3>1, CondemnedStays DEF VictimsAreStale
  <2> QED
    BY <2>2, <2>4, <2>5, <2>6, <2>7
<1> QED
  BY <1>1, <1>2

\* No step loses a session that is up.
LEMMA NothingGetsLost ==
  ASSUME TypeOK, HasSession, RecordsLinked, RecordsLinked', StartsStayOpen, VictimsAreStale,
         NothingActiveIsLost, [Next]_vars
  PROVE  NothingActiveIsLost'
<1> SUFFICES ASSUME NEW s \in Sessions, Up(s)' PROVE file'[s] # "none"
  BY DEF NothingActiveIsLost, RecordsLinked
<1>1. CASE ~ Up(s)
  <2>1. PICK p \in Procs : SaveWrite(p) /\ Starting(p, s)
    BY <1>1, UpIsNew
  <2>2. sid[p] = s /\ pc[p] = "write" /\ fd[p]
    BY <2>1 DEF SaveWrite, Starting, StartsStayOpen
  <2> QED
    BY <2>1, <2>2 DEF SaveWrite, TypeOK
<1>2. CASE Up(s)
  <2>1. file[s] # "none"
    BY <1>2 DEF NothingActiveIsLost
  <2>2. ASSUME NEW p \in Procs, Process(p) \/ Killed(p) PROVE file'[s] # "none"
    <3>1. CASE PruneRemove(p)
      <4>1. sid[p] # s
        BY <1>2, <3>1 DEF PruneRemove, VictimsAreStale, Condemned
      <4>2. file'[s] = file[s]
        <5>1. CASE dir[sid[p]]
          BY <3>1, <4>1, <5>1 DEF PruneRemove, TypeOK
        <5>2. CASE ~ dir[sid[p]]
          BY <3>1, <5>2 DEF PruneRemove
        <5> QED
          BY <5>1, <5>2
      <4> QED
        BY <2>1, <4>2
    <3>2. CASE SaveOpen(p) \/ SaveWrite(p)
      BY <2>1, <3>2 DEF SaveOpen, SaveWrite, TypeOK
    <3>3. CASE StartBegin(p) \/ StartFails(p) \/ SaveMkdir(p) \/ PruneRmdir(p)
               \/ LogMkdir(p) \/ LogAppend(p)
      BY <2>1, <3>3 DEF StartBegin, StartFails, SaveMkdir, PruneRmdir, LogMkdir, LogAppend, store
    <3>4. CASE ~ Writes(p)
      BY <2>1, <2>2, <3>4, OthersOnlyRead DEF store
    <3> QED
      BY <3>1, <3>2, <3>3, <3>4 DEF Writes
  <2>3. ASSUME NEW t \in Sessions, Dies(t) \/ Ages(t) PROVE file'[s] # "none"
    BY <2>1, <2>3 DEF Dies, Ages, store
  <2> QED
    BY <2>1, <2>2, <2>3 DEF Next, vars, store
<1> QED
  BY <1>1, <1>2

\* The invariant holds when the model begins and after every step.
LEMMA StoreAtInit == Init => StoreInvariant
<1> SUFFICES ASSUME Init PROVE StoreInvariant
  OBVIOUS
<1>1. HasSession /\ StepsOfCommands
  BY DEF Init, HasSession, StepsOfCommands, Steps
<1>2. AllKnown
  BY DEF Init, AllKnown, Known
<1>3. RecordsLinked /\ NothingActiveIsLost
  BY DEF Init, RecordsLinked, NothingActiveIsLost, Up
<1>4. StartsAreYoung /\ StartsStayOpen /\ VictimsAreStale
  BY DEF Init, StartsAreYoung, StartsStayOpen, VictimsAreStale, Starting
<1> QED
  BY <1>1, <1>2, <1>3, <1>4 DEF StoreInvariant

LEMMA StoreIsKept ==
  ASSUME Android = {}, TypeOK, StoreInvariant, [Next]_vars
  PROVE  StoreInvariant'
<1>1. HasSession' /\ StepsOfCommands' /\ AllKnown' /\ RecordsLinked'
  BY SessionIsKept, StepsAreKept, KnownIsKept, LinkedIsKept DEF StoreInvariant
<1>2. StartsAreYoung' /\ StartsStayOpen'
  BY YoungIsKept, OpenIsKept DEF StoreInvariant
<1>3. VictimsAreStale'
  BY VictimsAreKept DEF StoreInvariant
<1>4. NothingActiveIsLost'
  BY <1>1, NothingGetsLost DEF StoreInvariant
<1> QED
  BY <1>1, <1>2, <1>3, <1>4 DEF StoreInvariant

\* Where no session is on Android, a session whose start has returned and that
\* still runs keeps its directory and its session.json, however many starts,
\* stops, resizes and prunes run on the store at once and whichever of them
\* are killed.  (On Android it does not: see the findings.)
THEOREM NothingActiveIsEverLost ==
  ASSUME Android = {}
  PROVE  Spec => []NothingActiveIsLost
<1>1. Init => TypeOK /\ StoreInvariant
  BY TypeAtInit, StoreAtInit
<1>2. TypeOK /\ StoreInvariant /\ [Next]_vars => (TypeOK /\ StoreInvariant)'
  BY TypeIsKept, StoreIsKept DEF StoreInvariant
<1>3. StoreInvariant => NothingActiveIsLost
  BY DEF StoreInvariant
<1> QED
  BY <1>1, <1>2, <1>3, PTL DEF Spec
-----------------------------------------------------------------------------
(***************************************************************************)
(* The loops over the store choose rightly when nothing is resized.        *)
(***************************************************************************)
NoResize == \A p \in Procs : Command[p] # "resize"

\* Without a resize only a start saves, and it saves what it started.
LEMMA OnlyStartsSave ==
  ASSUME NoResize, TypeOK, HasSession, StepsOfCommands, StartsAreYoung,
         NEW p \in Procs, pc[p] \in {"mkdir", "open", "write"}
  PROVE  sid[p] \in Sessions /\ Starting(p, sid[p]) /\ stage[sid[p]] = "starting"
<1>1. sid[p] \in Sessions
  BY SessionIsThere DEF Steps
<1>2. Command[p] = "start"
  BY DEF NoResize, StepsOfCommands
<1> QED
  BY <1>1, <1>2 DEF Starting, StartsAreYoung

\* A session stays in its stage once it is up.
LEMMA UpStays ==
  ASSUME NoResize, TypeOK, HasSession, StepsOfCommands, StartsAreYoung, [Next]_vars,
         NEW s \in Sessions, stage[s] = "up"
  PROVE  stage'[s] = "up" /\ (Up(s)' => Up(s))
<1>1. stage'[s] = "up"
  <2>1. ASSUME NEW p \in Procs, Process(p) \/ Killed(p) PROVE stage'[s] = "up"
    <3>1. CASE StartBegin(p)
      BY <3>1 DEF StartBegin, TypeOK
    <3>2. CASE StartFails(p) \/ SaveWrite(p)
      <4>1. sid[p] # s
        BY <3>2, OnlyStartsSave DEF StartFails, SaveWrite
      <4> QED
        BY <3>2, <4>1 DEF StartFails, SaveWrite, TypeOK
    <3>3. CASE SaveMkdir(p) \/ SaveOpen(p) \/ PruneRemove(p) \/ PruneRmdir(p) \/ LogMkdir(p)
               \/ LogAppend(p)
      BY <3>3 DEF SaveMkdir, SaveOpen, PruneRemove, PruneRmdir, LogMkdir, LogAppend, host
    <3>4. CASE ~ Writes(p)
      BY <2>1, <3>4, OthersOnlyRead
    <3> QED
      BY <3>1, <3>2, <3>3, <3>4 DEF Writes
  <2>2. ASSUME NEW t \in Sessions, Dies(t) \/ Ages(t) PROVE stage' = stage
    BY <2>2 DEF Dies, Ages, host
  <2> QED
    BY <2>1, <2>2 DEF Next, vars, host
<1>2. Up(s)' => Up(s)
  BY UpIsNew DEF StartsAreYoung
<1> QED
  BY <1>1, <1>2

\* Records are written once and then read as they were saved.
LEMMA WrittenIsKept ==
  ASSUME NoResize, TypeOK, StoreInvariant, WrittenOnce, [Next]_vars
  PROVE  WrittenOnce'
<1> USE DEF StoreInvariant
<1>1. ASSUME NEW s \in Sessions, stage'[s] = "up" PROVE file'[s] \in {"saved", "none"}
  <2>1. CASE stage[s] = "up"
    <3>1. file[s] \in {"saved", "none"}
      BY <2>1 DEF WrittenOnce
    <3>2. ASSUME NEW p \in Procs, Process(p) \/ Killed(p) PROVE file'[s] \in {"saved", "none"}
      <4>1. CASE SaveOpen(p) \/ SaveWrite(p)
        <5>1. sid[p] # s
          BY <2>1, <4>1, OnlyStartsSave DEF SaveOpen, SaveWrite
        <5> QED
          BY <3>1, <4>1, <5>1 DEF SaveOpen, SaveWrite, TypeOK
      <4>2. CASE PruneRemove(p)
        BY <3>1, <4>2 DEF PruneRemove, TypeOK
      <4>3. CASE StartBegin(p) \/ StartFails(p) \/ SaveMkdir(p) \/ PruneRmdir(p)
                 \/ LogMkdir(p) \/ LogAppend(p)
        BY <3>1, <4>3 DEF StartBegin, StartFails, SaveMkdir, PruneRmdir, LogMkdir, LogAppend, store
      <4>4. CASE ~ Writes(p)
        BY <3>1, <3>2, <4>4, OthersOnlyRead DEF store
      <4> QED
        BY <4>1, <4>2, <4>3, <4>4 DEF Writes
    <3>3. ASSUME NEW t \in Sessions, Dies(t) \/ Ages(t) PROVE file' = file
      BY <3>3 DEF Dies, Ages, store
    <3> QED
      BY <3>1, <3>2, <3>3 DEF Next, vars, store
  <2>2. CASE stage[s] # "up"
    <3>1. ASSUME NEW p \in Procs, Process(p) \/ Killed(p) PROVE SaveWrite(p)
      <4>1. CASE StartBegin(p) \/ StartFails(p)
        BY <1>1, <2>2, <4>1 DEF StartBegin, StartFails, TypeOK
      <4>2. CASE SaveMkdir(p) \/ SaveOpen(p) \/ PruneRemove(p) \/ PruneRmdir(p) \/ LogMkdir(p)
                 \/ LogAppend(p)
        BY <1>1, <2>2, <4>2 DEF SaveMkdir, SaveOpen, PruneRemove, PruneRmdir, LogMkdir, LogAppend, host
      <4>3. CASE ~ Writes(p)
        BY <1>1, <2>2, <3>1, <4>3, OthersOnlyRead
      <4> QED
        BY <4>1, <4>2, <4>3 DEF Writes
    <3>2. ASSUME NEW t \in Sessions, Dies(t) \/ Ages(t) PROVE FALSE
      BY <1>1, <2>2, <3>2 DEF Dies, Ages, host
    <3>3. PICK p \in Procs : SaveWrite(p)
      BY <1>1, <2>2, <3>1, <3>2 DEF Next, vars, host
    <3>4. sid[p] = s /\ Starting(p, s) /\ Command[p] = "start" /\ pc[p] = "write"
      <4>1. Starting(p, sid[p]) /\ pc[p] = "write"
        BY <3>3, OnlyStartsSave DEF SaveWrite
      <4>2. sid[p] = s
        BY <1>1, <2>2, <3>3 DEF SaveWrite, TypeOK
      <4> QED
        BY <4>1, <4>2 DEF Starting
    <3>5. fd[p] /\ file[s] = "empty"
      BY <3>4 DEF StartsStayOpen, WrittenOnce
    <3> QED
      BY <3>3, <3>4, <3>5 DEF SaveWrite, TypeOK
  <2> QED
    BY <2>1, <2>2
<1>2. ASSUME NEW q \in Procs, pc'[q] = "write", Command[q] = "start"
      PROVE  file'[sid'[q]] = "empty"
  <2>1. ASSUME NEW p \in Procs, Process(p) \/ Killed(p) PROVE file'[sid'[q]] = "empty"
    <3>1. CASE p = q
      <4>1. SaveOpen(q)
        BY <1>2, <2>1, <3>1, OnlySaveOpens
      <4>2. sid[q] \in Sessions
        BY <4>1, OnlyStartsSave DEF SaveOpen
      <4> QED
        BY <4>1, <4>2 DEF SaveOpen, TypeOK
    <3>2. CASE p # q
      <4>1. sid'[q] = sid[q] /\ pc[q] = "write"
        BY <1>2, <2>1, <3>2, OneMoves
      <4>2. sid[q] \in Sessions /\ Starting(q, sid[q]) /\ file[sid[q]] = "empty"
        BY <1>2, <4>1, OnlyStartsSave DEF WrittenOnce
      <4>3. CASE SaveOpen(p) \/ SaveWrite(p)
        <5>1. sid[p] # sid[q]
          BY <3>2, <4>2, <4>3, OnlyStartsSave DEF SaveOpen, SaveWrite, StartsAreYoung
        <5> QED
          BY <4>1, <4>2, <4>3, <5>1 DEF SaveOpen, SaveWrite, TypeOK
      <4>4. CASE PruneRemove(p)
        <5>1. sid[p] # sid[q]
          BY <4>2, <4>4 DEF PruneRemove, VictimsAreStale, Condemned
        <5>2. CASE dir[sid[p]]
          BY <4>1, <4>2, <4>4, <5>1, <5>2 DEF PruneRemove, TypeOK
        <5>3. CASE ~ dir[sid[p]]
          BY <4>1, <4>2, <4>4, <5>3 DEF PruneRemove
        <5> QED
          BY <5>2, <5>3
      <4>5. CASE StartBegin(p) \/ StartFails(p) \/ SaveMkdir(p) \/ PruneRmdir(p)
                 \/ LogMkdir(p) \/ LogAppend(p)
        BY <4>1, <4>2, <4>5 DEF StartBegin, StartFails, SaveMkdir, PruneRmdir, LogMkdir, LogAppend, store
      <4>6. CASE ~ Writes(p)
        BY <2>1, <4>1, <4>2, <4>6, OthersOnlyRead DEF store
      <4> QED
        BY <4>3, <4>4, <4>5, <4>6 DEF Writes
    <3> QED
      BY <3>1, <3>2
  <2>2. ASSUME UNCHANGED <<pc, sid, file>> PROVE file'[sid'[q]] = "empty"
    BY <1>2, <2>2 DEF WrittenOnce
  <2>3. ASSUME NEW t \in Sessions, Dies(t) \/ Ages(t) PROVE UNCHANGED <<pc, sid, file>>
    BY <2>3 DEF Dies, Ages, store, locals
  <2> QED
    BY <2>1, <2>2, <2>3 DEF Next, vars, store, locals
<1> QED
  BY <1>1, <1>2 DEF WrittenOnce

\* A loop that began when a session was up does not miss it while it stays up.
LEMMA LoopsAreKept ==
  ASSUME NoResize, TypeOK, StoreInvariant, LoopInvariant, [Next]_vars
  PROVE  LoopsMissNothing'
<1> USE DEF StoreInvariant, LoopInvariant
<1> SUFFICES ASSUME NEW q \in Procs, NEW s \in Sessions, Command[q] # "prune", s \in before'[q]
             PROVE  /\ stage'[s] = "up"
                    /\ Up(s)' => /\ pc'[q] \in {"scan", "probe"} => s \in todo'[q] \cup found'[q]
                                 /\ pc'[q] = "read" => s \in todo'[q] \cup found'[q] \cup {sid'[q]}
                                 /\ pc'[q] = "resolved" => s <= sid'[q]
                                 /\ pc'[q] \in {"kill_app", "kill_xvfb"} => s = sid'[q]
  BY DEF LoopsMissNothing
<1> DEFINE Kept(b, step, t, f, i) ==
             Up(s) /\ s \in b =>
               /\ step \in {"scan", "probe"} => s \in t \cup f
               /\ step = "read" => s \in t \cup f \cup {i}
               /\ step = "resolved" => s <= i
               /\ step \in {"kill_app", "kill_xvfb"} => s = i
<1>1. Kept(before[q], pc[q], todo[q], found[q], sid[q]) /\ (s \in before[q] => stage[s] = "up")
  BY DEF LoopsMissNothing
<1>2. Up(s) => stage[s] = "up" /\ file[s] = "saved" /\ dir[s] /\ IsSessionActive(s, TRUE)
  BY DEF Up, WrittenOnce, NothingActiveIsLost
<1>3. CASE ScanBegin(q)
  <2>1. Up(s) /\ s \in todo'[q] /\ pc'[q] = "scan"
    BY <1>2, <1>3 DEF ScanBegin, Goto, TypeOK
  <2> QED
    BY <1>2, <2>1, UpStays
<1>4. ASSUME s \in before[q], Kept(before[q], pc'[q], todo'[q], found'[q], sid'[q])
      PROVE  /\ stage'[s] = "up"
             /\ Up(s)' => /\ pc'[q] \in {"scan", "probe"} => s \in todo'[q] \cup found'[q]
                          /\ pc'[q] = "read" => s \in todo'[q] \cup found'[q] \cup {sid'[q]}
                          /\ pc'[q] = "resolved" => s <= sid'[q]
                          /\ pc'[q] \in {"kill_app", "kill_xvfb"} => s = sid'[q]
  BY <1>1, <1>4, UpStays
<1>5. ASSUME (Process(q) \/ Killed(q)), ~ ScanBegin(q)
      PROVE  s \in before[q] /\ Kept(before[q], pc'[q], todo'[q], found'[q], sid'[q])
  <2>1. s \in before[q]
    BY <1>5 DEF Process, Start, StartBegin, StartFails, Resize, ResizeLoad, ResizeDisplay,
       Save, SaveMkdir, SaveOpen, SaveOpenFails, SaveWrite, Scan, ScanLoad, ScanRead, ScanLoaded,
       ScanProbe, Resolve, UseResolved, Stop, StopSole, StopNamed, KillApp, KillXvfb,
       Prune, PruneBegin, PrunePick, PruneEnd, PruneLoad, PruneRead, PruneJudge, PruneStat,
       PruneRemove, PruneRmdir, Log, LogMkdir, LogAppend, Killed, Runs, locals, TypeOK
  <2>2. CASE ScanLoad(q)
    <3>1. PICK t \in todo[q] : /\ todo'[q] = todo[q] \ {t} /\ sid'[q] = t /\ found' = found
                               /\ pc'[q] = IF file[t] = "none" THEN "scan" ELSE "read"
      BY <2>2 DEF ScanLoad, Goto, TypeOK
    <3> QED
      BY <1>1, <2>1, <1>2, <2>2, <3>1 DEF ScanLoad
  <2>3. CASE ScanRead(q)
    <3>1. /\ pc[q] = "read" /\ todo' = todo /\ sid' = sid
          /\ found'[q] = IF file[sid[q]] = "saved" THEN found[q] \cup {sid[q]} ELSE found[q]
          /\ pc'[q] \in {"scan", "raised"}
      BY <2>3 DEF ScanRead, Goto, TypeOK
    <3> QED
      BY <1>1, <2>1, <1>2, <3>1
  <2>4. CASE ScanLoaded(q)
    <3>1. pc[q] = "scan" /\ todo[q] = {} /\ todo'[q] = found[q] /\ pc'[q] = "probe"
      BY <2>4 DEF ScanLoaded, Goto, TypeOK
    <3> QED
      BY <1>1, <2>1, <3>1
  <2>5. CASE ScanProbe(q)
    <3>1. PICK t \in todo[q] :
             /\ todo'[q] = todo[q] \ {t} /\ pc' = pc /\ pc[q] = "probe"
             /\ found'[q] = IF IsSessionActive(t, TRUE) THEN found[q] \cup {t} ELSE found[q]
      BY <2>5 DEF ScanProbe, TypeOK
    <3> QED
      BY <1>1, <2>1, <1>2, <3>1
  <2>6. CASE Resolve(q)
    <3>1. pc[q] = "probe" /\ todo[q] = {}
      BY <2>6 DEF Resolve
    <3> QED
      BY <1>1, <2>1, <2>6, <3>1, ResolveChooses
  <2>7. CASE StopSole(q)
    <3>1. pc[q] = "probe" /\ todo[q] = {}
      BY <2>7 DEF StopSole
    <3> QED
      BY <1>1, <2>1, <2>7, <3>1, StopChooses
  <2>8. CASE KillApp(q) \/ KillXvfb(q)
    <3>1. pc[q] \in {"kill_app", "kill_xvfb"} /\ sid' = sid /\ pc'[q] \in {"kill_xvfb", "log"}
      BY <2>8 DEF KillApp, KillXvfb, Goto, TypeOK, locals
    <3> QED
      BY <1>1, <2>1, <3>1
  <2>9. CASE StopNamed(q)
    <3>1. before'[q] = {}
      BY <2>9 DEF StopNamed, TypeOK
    <3> QED
      BY <3>1
  <2>10. CASE (~ Scan(q) /\ ~ Stop(q)) \/ UseResolved(q)
    <3>1. pc'[q] \notin {"scan", "probe", "read", "resolved", "kill_app", "kill_xvfb"}
      <4>1. CASE Start(q) \/ Resize(q)
        BY <4>1 DEF Start, StartBegin, StartFails, Resize, ResizeLoad, ResizeDisplay, Goto, TypeOK
      <4>2. CASE Save(q) \/ Log(q)
        BY <4>2 DEF Save, SaveMkdir, SaveOpen, SaveOpenFails, SaveWrite, Log, LogMkdir, LogAppend,
           Goto, TypeOK
      <4>3. CASE Prune(q)
        BY <4>3 DEF Prune, PruneBegin, PrunePick, PruneEnd, PruneLoad, PruneRead, PruneJudge,
           PruneStat, PruneRemove, PruneRmdir, Runs, StepsOfCommands, Goto, TypeOK
      <4>4. CASE UseResolved(q) \/ Killed(q)
        BY <4>4 DEF UseResolved, Killed, Goto, TypeOK
      <4> QED
        BY <1>5, <2>10, <4>1, <4>2, <4>3, <4>4 DEF Process
    <3> QED
      BY <2>1, <3>1
  <2> QED
    BY <1>5, <2>1, <2>2, <2>3, <2>4, <2>5, <2>6, <2>7, <2>8, <2>9, <2>10 DEF Process, Scan, Stop
<1>6. ASSUME pc'[q] = pc[q], sid'[q] = sid[q], todo'[q] = todo[q], found'[q] = found[q],
             before'[q] = before[q]
      PROVE  s \in before[q] /\ Kept(before[q], pc'[q], todo'[q], found'[q], sid'[q])
  BY <1>1, <1>6
<1>7. ASSUME NEW p \in Procs, Process(p) \/ Killed(p), p # q
      PROVE  s \in before[q] /\ Kept(before[q], pc'[q], todo'[q], found'[q], sid'[q])
  BY <1>6, <1>7, OneMoves
<1>8. ASSUME (\E t \in Sessions : Dies(t) \/ Ages(t)) \/ UNCHANGED vars
      PROVE  s \in before[q] /\ Kept(before[q], pc'[q], todo'[q], found'[q], sid'[q])
  BY <1>6, <1>8 DEF Dies, Ages, locals, vars
<1> HIDE DEF Kept
<1> QED
  BY <1>3, <1>4, <1>5, <1>7, <1>8 DEF Next

\* The loop invariant holds when the model begins and after every step.
LEMMA LoopsAtInit == Init => LoopInvariant
BY DEF Init, LoopInvariant, WrittenOnce, LoopsMissNothing

LEMMA LoopsHold ==
  ASSUME Android = {}, NoResize
  PROVE  Spec => [](TypeOK /\ StoreInvariant /\ LoopInvariant)
<1>1. Init => TypeOK /\ StoreInvariant /\ LoopInvariant
  BY TypeAtInit, StoreAtInit, LoopsAtInit
<1>2. TypeOK /\ StoreInvariant /\ LoopInvariant /\ [Next]_vars
        => (TypeOK /\ StoreInvariant /\ LoopInvariant)'
  <2> SUFFICES ASSUME TypeOK, StoreInvariant, LoopInvariant, [Next]_vars
               PROVE  (TypeOK /\ StoreInvariant /\ LoopInvariant)'
    OBVIOUS
  <2>1. TypeOK' /\ StoreInvariant'
    BY TypeIsKept, StoreIsKept DEF StoreInvariant
  <2>2. WrittenOnce' /\ LoopsMissNothing'
    BY WrittenIsKept, LoopsAreKept DEF LoopInvariant
  <2> QED
    BY <2>1, <2>2 DEF LoopInvariant
<1> QED
  BY <1>1, <1>2, PTL DEF Spec

\* Without a resize, and with no session on Android, a command without
\* --session never works on a session older than one that was up all the while
\* it looked: starts, stops, prunes and crashes cannot hide the newest.
THEOREM NewestIsResolved ==
  ASSUME Android = {}, NoResize
  PROVE  Spec => []ResolvesNewest
<1>1. TypeOK /\ StoreInvariant /\ LoopInvariant => ResolvesNewest
  <2> SUFFICES ASSUME LoopInvariant, StepsOfCommands, NEW p \in Procs, pc[p] = "resolved",
                      NEW s \in Sessions, s \in before[p], Up(s)
               PROVE  s <= sid[p]
    BY DEF StoreInvariant, TypeOK, ResolvesNewest
  <2>1. Command[p] # "prune"
    BY DEF StepsOfCommands
  <2> QED
    BY <2>1 DEF LoopInvariant, LoopsMissNothing
<1> QED
  BY <1>1, LoopsHold, PTL

\* Under the same conditions a stop without --session never picks one of
\* several sessions that were up all the while it looked.
THEOREM SoleIsStopped ==
  ASSUME Android = {}, NoResize
  PROVE  Spec => []StopsOnlySole
<1>1. TypeOK /\ StoreInvariant /\ LoopInvariant => StopsOnlySole
  <2> SUFFICES ASSUME LoopInvariant, StepsOfCommands, NEW p \in Procs,
                      pc[p] \in {"kill_app", "kill_xvfb"},
                      NEW s \in Sessions, s \in before[p], Up(s)
               PROVE  s = sid[p]
    BY DEF StoreInvariant, TypeOK, StopsOnlySole
  <2>1. Command[p] # "prune"
    BY DEF StepsOfCommands
  <2> QED
    BY <2>1 DEF LoopInvariant, LoopsMissNothing
<1> QED
  BY <1>1, LoopsHold, PTL

-----------------------------------------------------------------------------
(***************************************************************************)
(* Prune, whatever the other commands do: on Android and with resizes too. *)
(***************************************************************************)

\* What is dead stays dead, what is old enough stays old enough.
LEMMA DeadAndOldStay ==
  ASSUME TypeOK, HasSession, [Next]_vars, NEW s \in Sessions, Known(s)
  PROVE  /\ live[s] = {} => live'[s] = {}
         /\ "start" \in aged[s] => "start" \in aged'[s]
<1> USE DEF Known, TypeOK, host, store
<1>1. ASSUME NEW p \in Procs, Process(p) \/ Killed(p)
      PROVE  /\ live[s] = {} => live'[s] = {}
             /\ "start" \in aged[s] => "start" \in aged'[s]
  <2>1. CASE StartBegin(p) \/ StartFails(p)
    BY <2>1 DEF StartBegin, StartFails
  <2>2. CASE SaveMkdir(p) \/ SaveOpen(p) \/ SaveWrite(p)
    BY <2>2 DEF SaveMkdir, SaveOpen, SaveWrite, Touched
  <2>3. CASE PruneRemove(p) \/ PruneRmdir(p)
    BY <2>3 DEF PruneRemove, PruneRmdir
  <2>4. CASE LogMkdir(p) \/ LogAppend(p)
    BY <2>4 DEF LogMkdir, LogAppend, Touched
  <2>5. CASE ~ Writes(p)
    BY <1>1, <2>5, OthersOnlyRead
  <2> QED
    BY <2>1, <2>2, <2>3, <2>4, <2>5 DEF Writes
<1>2. ASSUME NEW t \in Sessions, Dies(t) \/ Ages(t)
      PROVE  /\ live[s] = {} => live'[s] = {}
             /\ "start" \in aged[s] => "start" \in aged'[s]
  BY <1>2 DEF Dies, Ages
<1> QED
  BY <1>1, <1>2 DEF Next, vars

\* A session that a resize works on, or has worked on, stays one.
LEMMA ResizedStays ==
  ASSUME TypeOK, HasSession, StepsOfCommands, [Next]_vars, NEW s \in Sessions, Resized(s)
  PROVE  Resized(s)'
<1>1. PICK q \in Procs : Command[q] = "resize" /\ sid[q] = s
  BY DEF Resized
<1>2. pc[q] # "idle"
  BY <1>1, SessionAssumption DEF HasSession, Sessions
<1>3. CASE Process(q) \/ Killed(q)
  BY <1>1, <1>2, <1>3 DEF Process, Start, StartBegin, StartFails, Resize, ResizeLoad,
     ResizeDisplay, Save, SaveMkdir, SaveOpen, SaveOpenFails, SaveWrite, Scan, ScanBegin,
     ScanLoad, ScanRead, ScanLoaded, ScanProbe, Resolve, UseResolved, Stop, StopSole, StopNamed,
     KillApp, KillXvfb, Prune, PruneBegin, PrunePick, PruneEnd, PruneLoad, PruneRead, PruneJudge,
     PruneStat, PruneRemove, PruneRmdir, Log, LogMkdir, LogAppend, Killed, Runs, locals,
     StepsOfCommands, Resized, TypeOK
<1>4. ASSUME NEW p \in Procs, Process(p) \/ Killed(p), p # q PROVE sid'[q] = sid[q]
  BY <1>4, OneMoves
<1>5. ASSUME (\E t \in Sessions : Dies(t) \/ Ages(t)) \/ UNCHANGED vars PROVE sid'[q] = sid[q]
  BY <1>5 DEF Dies, Ages, locals, vars
<1>6. sid'[q] = sid[q] => Resized(s)'
  BY <1>1 DEF Resized
<1> QED
  BY <1>3, <1>4, <1>5, <1>6 DEF Next

\* The record of a session that nobody is starting changes only by being
\* removed or by a resize.
LEMMA OnlyResizesSave ==
  ASSUME TypeOK, HasSession, StepsOfCommands, [Next]_vars, NEW s \in Sessions,
         \A q \in Procs : ~ Starting(q, s)
  PROVE  file'[s] = file[s] \/ file'[s] = "none" \/ Resized(s)
<1> USE DEF TypeOK, host, store
<1>1. ASSUME NEW p \in Procs, Process(p) \/ Killed(p)
      PROVE  file'[s] = file[s] \/ file'[s] = "none" \/ Resized(s)
  <2>1. CASE SaveOpen(p) \/ SaveWrite(p)
    <3>1. pc[p] \in {"open", "write"} /\ (sid[p] # s => file'[s] = file[s])
      BY <2>1 DEF SaveOpen, SaveWrite
    <3>2. sid[p] = s => Command[p] = "resize"
      BY <3>1 DEF StepsOfCommands, Starting
    <3> QED
      BY <3>1, <3>2 DEF Resized
  <2>2. CASE Writes(p) /\ ~ (SaveOpen(p) \/ SaveWrite(p))
    BY <2>2 DEF Writes, StartBegin, StartFails, SaveMkdir, PruneRemove, PruneRmdir, LogMkdir,
       LogAppend
  <2>3. CASE ~ Writes(p)
    BY <1>1, <2>3, OthersOnlyRead
  <2> QED
    BY <2>1, <2>2, <2>3
<1>2. ASSUME NEW t \in Sessions, Dies(t) \/ Ages(t) PROVE file'[s] = file[s]
  BY <1>2 DEF Dies, Ages
<1> QED
  BY <1>1, <1>2 DEF Next, vars

\* A prune has still to come to a session that it had to come to, unless the
\* session's record is no longer there.
LEMMA AheadStays ==
  ASSUME TypeOK, HasSession, StepsOfCommands, RecordsLinked, [Next]_vars,
         NEW p \in Procs, Command[p] = "prune", NEW s \in Sessions, Known(s), Ahead(p, s),
         pc[p] # "idle", file'[s] = "saved"
  PROVE  Ahead(p, s)'
<1>1. live'[s] = {} /\ "start" \in aged'[s]
  BY DeadAndOldStay DEF Ahead
<1> DEFINE InLoop(step, t, i) == \/ s \in t /\ step \in {"pick", "load", "read", "judge", "stat",
                                                     "remove", "rmdir"}
                                 \/ i = s /\ step \in {"load", "read", "judge", "remove"}
                                 \/ step \in {"raised", "killed"}
<1>2. InLoop(pc[p], todo[p], sid[p]) /\ file[s] = "saved" /\ live[s] = {} /\ "start" \in aged[s]
  BY DEF Ahead
<1>3. SUFFICES InLoop(pc'[p], todo'[p], sid'[p])
  BY <1>1 DEF Ahead
<1>4. ASSUME Prune(p) PROVE InLoop(pc'[p], todo'[p], sid'[p])
  <2> USE DEF Goto, TypeOK, locals
  <2>1. CASE PruneBegin(p)
    BY <2>1 DEF PruneBegin, Runs
  <2>2. CASE PrunePick(p)
    <3>1. PICK t \in todo[p] : /\ pc[p] = "pick" /\ todo'[p] = todo[p] \ {t} /\ sid'[p] = t
                               /\ pc'[p] = "load"
      BY <2>2 DEF PrunePick
    <3> QED
      BY <1>2, <3>1
  <2>3. CASE PruneEnd(p)
    BY <1>2, <2>3 DEF PruneEnd
  <2>4. CASE PruneLoad(p)
    BY <1>2, <2>4 DEF PruneLoad
  <2>5. CASE PruneRead(p)
    BY <1>2, <2>5 DEF PruneRead
  <2>6. CASE PruneJudge(p)
    <3>1. ~ IsSessionActive(s, FALSE)
      BY <1>2 DEF IsSessionActive
    <3> QED
      BY <1>2, <2>6, <3>1 DEF PruneJudge
  <2>7. CASE PruneStat(p)
    BY <1>2, <2>7 DEF PruneStat
  <2>8. CASE PruneRemove(p)
    <3>1. dir[s]
      BY <1>2 DEF RecordsLinked
    <3> QED
      BY <1>2, <2>8, <3>1 DEF PruneRemove
  <2>9. CASE PruneRmdir(p)
    BY <1>2, <2>9 DEF PruneRmdir
  <2> QED
    BY <1>4, <2>1, <2>2, <2>3, <2>4, <2>5, <2>6, <2>7, <2>8, <2>9 DEF Prune
<1>5. ASSUME Killed(p) PROVE InLoop(pc'[p], todo'[p], sid'[p])
  BY <1>5 DEF Killed, Goto, TypeOK
<1>6. ASSUME Log(p) \/ Start(p) \/ Resize(p) \/ Save(p) \/ Scan(p) \/ Stop(p)
      PROVE  pc[p] \in {"log", "append"} /\ pc'[p] \in {"append", "done"} /\ Log(p)
  BY <1>6 DEF Log, LogMkdir, LogAppend, Start, StartBegin, StartFails, Resize, ResizeLoad,
     ResizeDisplay, Save, SaveMkdir, SaveOpen, SaveOpenFails, SaveWrite, Scan, ScanBegin,
     ScanLoad, ScanRead, ScanLoaded, ScanProbe, Resolve, UseResolved, Stop, StopSole, StopNamed,
     KillApp, KillXvfb, Runs, StepsOfCommands, Goto, TypeOK
<1>7. ASSUME Log(p) PROVE InLoop(pc'[p], todo'[p], sid'[p])
  BY <1>2, <1>7 DEF Log, LogMkdir, LogAppend
<1>8. ASSUME NEW q \in Procs, Process(q) \/ Killed(q), q # p
      PROVE  InLoop(pc'[p], todo'[p], sid'[p])
  BY <1>2, <1>8, OneMoves
<1>9. ASSUME (\E t \in Sessions : Dies(t) \/ Ages(t)) \/ UNCHANGED vars
      PROVE  InLoop(pc'[p], todo'[p], sid'[p])
  BY <1>2, <1>9 DEF Dies, Ages, locals, vars
<1> HIDE DEF InLoop
<1> QED
  BY <1>4, <1>5, <1>6, <1>7, <1>8, <1>9 DEF Next, Process

\* What a prune has to remove is found when it begins.
LEMMA PruneFindsStale ==
  ASSUME TypeOK, AllKnown, StartsAreYoung, NEW p \in Procs, PruneBegin(p),
         NEW s \in Sessions, s \in before'[p]
  PROVE  /\ Known(s) /\ \A q \in Procs : ~ Starting(q, s)
         /\ Ahead(p, s)' /\ pc'[p] = "pick"
<1>1. Stale(s) /\ s \in todo'[p] /\ pc'[p] = "pick" /\ UNCHANGED <<host, store>>
  BY DEF PruneBegin, Goto, TypeOK, Stale
<1>2. Known(s) /\ \A q \in Procs : ~ Starting(q, s)
  BY <1>1 DEF Stale, AllKnown, StartsAreYoung
<1> QED
  BY <1>1, <1>2 DEF Stale, Ahead, host, store

LEMMA PruneIsKept ==
  ASSUME TypeOK, HasSession, StepsOfCommands, AllKnown, RecordsLinked, StartsAreYoung,
         PruneInvariant, [Next]_vars
  PROVE  PruneInvariant'
<1> SUFFICES ASSUME NEW p \in Procs, NEW s \in Sessions, Command[p] = "prune", s \in before'[p]
             PROVE  /\ Known(s)' /\ \A q \in Procs : ~ Starting(q, s)'
                    /\ pc'[p] # "idle"
                    /\ file'[s] = "none" \/ Resized(s)' \/ Ahead(p, s)'
  BY DEF PruneInvariant
<1>1. ASSUME Known(s), \A q \in Procs : ~ Starting(q, s)
      PROVE  Known(s)' /\ \A q \in Procs : ~ Starting(q, s)'
  BY <1>1, KnownStays, StartingIsNew DEF Known
<1>2. CASE PruneBegin(p)
  BY <1>1, <1>2, PruneFindsStale
<1>3. ASSUME s \in before[p], pc'[p] # "idle"
      PROVE  /\ Known(s)' /\ \A q \in Procs : ~ Starting(q, s)'
             /\ pc'[p] # "idle"
             /\ file'[s] = "none" \/ Resized(s)' \/ Ahead(p, s)'
  <2>1. /\ Known(s) /\ \A q \in Procs : ~ Starting(q, s)
        /\ pc[p] # "idle"
        /\ file[s] = "none" \/ Resized(s) \/ Ahead(p, s)
    BY <1>3 DEF PruneInvariant
  <2>2. Resized(s) => Resized(s)'
    BY ResizedStays
  <2>3. file'[s] = file[s] \/ file'[s] = "none" \/ Resized(s)
    BY <2>1, OnlyResizesSave
  <2>4. Ahead(p, s) /\ file'[s] = "saved" => Ahead(p, s)'
    BY <2>1, AheadStays
  <2>5. Ahead(p, s) => file[s] = "saved"
    BY DEF Ahead
  <2> QED
    BY <1>1, <1>3, <2>1, <2>2, <2>3, <2>4, <2>5
<1>4. ASSUME Process(p) \/ Killed(p), ~ PruneBegin(p)
      PROVE  s \in before[p] /\ pc'[p] # "idle"
  <2>1. before'[p] = before[p]
    BY <1>4 DEF Process, Start, StartBegin, StartFails, Resize, ResizeLoad, ResizeDisplay,
       Save, SaveMkdir, SaveOpen, SaveOpenFails, SaveWrite, Scan, ScanBegin, ScanLoad, ScanRead,
       ScanLoaded, ScanProbe, Resolve, UseResolved, Stop, StopSole, StopNamed, KillApp, KillXvfb,
       Prune, PrunePick, PruneEnd, PruneLoad, PruneRead, PruneJudge, PruneStat,
       PruneRemove, PruneRmdir, Log, LogMkdir, LogAppend, Killed, Runs, locals, TypeOK
  <2>2. pc'[p] # "idle"
    <3>1. CASE Resolve(p) \/ StopSole(p)
      BY <3>1, ResolveChooses, StopChooses
    <3> QED
      BY <1>4, <3>1 DEF Process, Start, StartBegin, StartFails, Resize, ResizeLoad, ResizeDisplay,
         Save, SaveMkdir, SaveOpen, SaveOpenFails, SaveWrite, Scan, ScanBegin, ScanLoad, ScanRead,
         ScanLoaded, ScanProbe, UseResolved, Stop, StopNamed, KillApp, KillXvfb,
         Prune, PrunePick, PruneEnd, PruneLoad, PruneRead, PruneJudge, PruneStat,
         PruneRemove, PruneRmdir, Log, LogMkdir, LogAppend, Killed, Goto, TypeOK
  <2> QED
    BY <2>1, <2>2
<1>5. ASSUME pc'[p] = pc[p], before'[p] = before[p]
      PROVE  s \in before[p] /\ pc'[p] # "idle"
  BY <1>5 DEF PruneInvariant
<1>6. ASSUME NEW q \in Procs, Process(q) \/ Killed(q), q # p
      PROVE  s \in before[p] /\ pc'[p] # "idle"
  BY <1>5, <1>6, OneMoves
<1>7. ASSUME (\E t \in Sessions : Dies(t) \/ Ages(t)) \/ UNCHANGED vars
      PROVE  s \in before[p] /\ pc'[p] # "idle"
  BY <1>5, <1>7 DEF Dies, Ages, locals, vars
<1> QED
  BY <1>2, <1>3, <1>4, <1>6, <1>7 DEF Next

\* A prune that reports success has removed every session that was dead and
\* past the maximum age when it began: no start, stop, resolve, second prune or
\* crash can hide one from it, on Android or not; only a resize can save it.
THEOREM PruneIsEverThorough == Spec => []PruneIsThorough
<1> DEFINE Inv == /\ TypeOK /\ HasSession /\ StepsOfCommands /\ AllKnown /\ RecordsLinked
                  /\ StartsAreYoung /\ PruneInvariant
<1>1. Init => Inv
  BY TypeAtInit, StoreAtInit DEF StoreInvariant, PruneInvariant, Init
<1>2. Inv /\ [Next]_vars => Inv'
  BY TypeIsKept, SessionIsKept, StepsAreKept, KnownIsKept, LinkedIsKept, YoungIsKept, PruneIsKept
<1>3. Inv => PruneIsThorough
  <2> SUFFICES ASSUME Inv, NEW p \in Procs, Command[p] = "prune", pc[p] = "done",
                      NEW s \in Sessions, s \in before[p]
               PROVE  file[s] = "none" \/ Resized(s)
    BY DEF PruneIsThorough, TypeOK
  <2>1. ~ Ahead(p, s)
    BY DEF Ahead
  <2> QED
    BY <2>1 DEF PruneInvariant
<1> QED
  BY <1>1, <1>2, <1>3, PTL DEF Spec
=============================================================================
