-------------------------------- MODULE Waits --------------------------------
(***************************************************************************)
(* The commands that wait for an application: wait (a node is present,     *)
(* absent, or was there for a moment), wait-stable, and wait-reactive      *)
(* (screen, nodes and app on Android by polling, native events on Linux).  *)
(* Reading a screen takes time, may fail, and returns what was on it at    *)
(* some moment of the read; the application goes on meanwhile.             *)
(*                                                                         *)
(* A screen is the set of nodes that a tree lists, less the subtrees that  *)
(* wait-stable is told to ignore; a node has an id, on Android perhaps a   *)
(* stable id (else ""), a role, a name and the app it belongs to.          *)
(***************************************************************************)
EXTENDS Integers, Sequences, FiniteSets, SequencesExt

CONSTANTS
  Screens,      \* what the application may show
  Target,       \* the name waited for
  Interval,     \* POLL_INTERVAL of wait, in ticks
  Transient,    \* TRANSIENT_POLL_INTERVAL of wait --transient
  Asked,        \* the poll interval asked of wait-stable and wait-reactive
  Timeout,      \* the timeout asked for
  Grace,        \* how much longer a native event worker may take: 2 seconds
  MaxRead,      \* the longest read of a screen or query of the device
  Consecutive,  \* the equal polls that wait-stable asks for
  Tolerance,    \* the differing nodes that wait-stable overlooks
  MaxChanges    \* how often the application changes its screen

(* Each tree is numbered by a registry of its own (NodeIdRegistry): no two *)
(* nodes of a screen have one id.                                          *)
ASSUME ScreensAssumption ==
  \A s \in Screens : \A m \in s : \A n \in s : m.id = n.id => m = n

ASSUME TicksAssumption ==
  /\ {Interval, Transient, Asked, Timeout, MaxRead, Consecutive} \subseteq Nat \ {0}
  /\ {Grace, Tolerance, MaxChanges} \subseteq Nat

VARIABLES
  kind,         \* what the call waits for
  backend,      \* of the session: "linux" or "android"; wait reads its tree
                \* and is the same for both
  now,          \* the clock, in ticks since the call began
  shown,        \* ghost: what was shown, with the moment it appeared
  pc,           \* the step of the call
  since,        \* when the read or the sleep under way began
  got,          \* what the read under way has seen
  base,         \* the screen the later ones are compared with
  counter,      \* wait-stable: how many polls in a row equalled the baseline;
                \* native events: the changes before the listener registered
  seen,         \* wait --transient: the target was seen
  polled,       \* the first read was made
  window,       \* ghost: the last reads of wait-stable
  deaf,         \* ghost: a query for the app failed
  result        \* the answer

vars == <<kind, backend, now, shown, pc, since, got, base, counter, seen,
          polled, window, deaf, result>>

Kinds == {"present", "absent", "transient", "stable",
          "app-change", "screen-change", "node-appears", "node-disappears",
          "focus-change"}

screen == Last(shown).on
NoScreen == [ok |-> FALSE, on |-> {}]
Read(s) == [ok |-> TRUE, on |-> s]
Pending == [status |-> "pending"]

Polls == kind \in {"present", "absent", "transient", "stable"} \/ backend = "android"
HasBaseline == kind \notin {"present", "absent", "transient"}

\* Mutation: wait --transient polls no faster than wait.
BugPollInterval == IF HasBaseline THEN Asked ELSE Interval

PollInterval ==
  IF HasBaseline THEN Asked ELSE IF kind = "transient" THEN Transient ELSE Interval
-----------------------------------------------------------------------------
(* Which nodes match, and how screens are compared.                        *)

Matching(s) == {n \in s : n.name = Target}
AppOf(s) == {n.app : n \in s}

(* What one node of two screens is told by: on Android its stable id, when *)
(* it has one that neither screen repeats; else its id.                    *)
Repeated(s) ==
  {n.stable : n \in {m \in s : \E o \in s : o.id # m.id /\ o.stable = m.stable}}

Key(n, repeated, on) ==
  IF on = "android" /\ n.stable # "" /\ n.stable \notin repeated
  THEN <<"stable", n.stable>> ELSE <<"id", n.id>>

(* trees_structurally_equal: a node added or removed counts once, a role   *)
(* and a name that changed once each.                                      *)
Distance(s, t, on) ==
  LET repeated == Repeated(s) \cup Repeated(t)
      Keys(u) == {Key(n, repeated, on) : n \in u}
      Common == {p \in s \X t : Key(p[1], repeated, on) = Key(p[2], repeated, on)}
  IN  Cardinality((Keys(s) \ Keys(t)) \cup (Keys(t) \ Keys(s)))
      + Cardinality({p \in Common : p[1].role # p[2].role})
      + Cardinality({p \in Common : p[1].name # p[2].name})

Equal(s, t, on) == Distance(s, t, on) <= Tolerance

(* The fingerprint of a screen: a sorted list, that is a bag, of what its  *)
(* nodes are called, their roles and names.                                *)
NodeKey(n) == IF n.stable # "" THEN n.stable ELSE n.id
Line(n) == <<NodeKey(n), n.role, n.name>>
Fingerprint(s) ==
  [k \in {Line(n) : n \in s} |-> Cardinality({n \in s : Line(n) = k})]

Appeared(s, t) == {n \in Matching(t) : \A m \in Matching(s) : NodeKey(m) # NodeKey(n)}
-----------------------------------------------------------------------------
Looks == [ok : BOOLEAN, on : Screens \cup {{}}]

TypeOK ==
  /\ kind \in Kinds /\ backend \in {"linux", "android"}
  /\ now \in Nat /\ since \in Nat /\ counter \in Nat
  /\ shown \in Seq([at : Nat, on : Screens]) /\ shown # <<>>
  /\ pc \in {"begin", "look", "return", "check", "sleep", "spawn", "listen", "done"}
  /\ got \in Looks /\ base \in Looks
  /\ seen \in BOOLEAN /\ polled \in BOOLEAN /\ deaf \in BOOLEAN
  /\ window \in Seq(Screens \cup {{}})
  /\ result \in [status : {"pending", "met", "gone", "timeout", "unsupported", "error"}]

Init ==
  /\ kind \in Kinds
  /\ backend \in {"linux", "android"}
  /\ ~HasBaseline => backend = "linux"
  /\ now = 0
  /\ shown \in {<<[at |-> 0, on |-> s]>> : s \in Screens}
  /\ pc = "begin"
  /\ since = 0
  /\ got = NoScreen
  /\ base = NoScreen
  /\ counter = 0
  /\ seen = FALSE
  /\ polled = FALSE
  /\ window = <<>>
  /\ deaf = FALSE
  /\ result = Pending

End(r) == result' = r /\ pc' = "done"

(* The use case and the observer of the backend take the request.          *)
Supported ==
  \/ kind \in {"present", "absent", "transient", "stable", "screen-change"}
  \/ kind = "focus-change" /\ backend = "linux"
  \/ kind \in {"app-change", "node-appears", "node-disappears"} /\ backend = "android"

Begin ==
  /\ pc = "begin"
  /\ IF ~Supported
     THEN End([status |-> "unsupported"])
     ELSE pc' = (IF Polls THEN "look" ELSE "spawn") /\ UNCHANGED result
  /\ UNCHANGED <<kind, backend, now, shown, since, got, base, counter, seen, polled, window, deaf>>

(* A read begins; it sees what is shown at some moment of it.              *)
Capture ==
  /\ pc = "look"
  /\ got' = Read(screen)
  /\ pc' = "return"
  /\ UNCHANGED <<kind, backend, now, shown, since, base, counter, seen, polled, window, deaf, result>>

(* The read fails: wait and wait-stable raise, an observer turns it into   *)
(* an answer; the query for the app answers that nothing is known.         *)
CaptureFails ==
  /\ pc = "look"
  /\ IF kind = "app-change"
     THEN got' = NoScreen /\ pc' = "return" /\ UNCHANGED result
     ELSE End([status |-> "error"]) /\ UNCHANGED got
  /\ UNCHANGED <<kind, backend, now, shown, since, base, counter, seen, polled, window, deaf>>

\* Mutation: a node that was never there counts as one that disappeared.
BugSatisfied ==
  \/ kind = "present" /\ Matching(got.on) # {}
  \/ kind = "absent" /\ Matching(got.on) = {}
  \/ kind = "node-disappears" /\ polled /\ Matching(got.on) = {}

Satisfied ==
  \/ kind = "present" /\ Matching(got.on) # {}
  \/ kind = "absent" /\ Matching(got.on) = {}
  \/ /\ kind = "stable" /\ polled
     /\ Equal(base.on, got.on, backend) /\ counter + 1 >= Consecutive
  \/ /\ kind = "app-change" /\ polled
     /\ got.ok /\ (~base.ok \/ AppOf(got.on) # AppOf(base.on))
  \/ /\ kind = "screen-change" /\ polled
     /\ Fingerprint(got.on) # Fingerprint(base.on)
  \/ /\ kind = "node-appears" /\ polled
     /\ Appeared(base.on, got.on) # {}
  \/ /\ kind = "node-disappears" /\ polled
     /\ Matching(base.on) # {} /\ Matching(got.on) = {}

\* Mutation: each read is compared with the one before it.
BugNextBase == IF ~polled \/ kind = "stable" THEN got ELSE base

(* The first read is the baseline; wait-stable takes a new one whenever a  *)
(* read differs from it, and keeps it while the reads are equal.           *)
NextBase ==
  IF ~polled \/ (kind = "stable" /\ ~Equal(base.on, got.on, backend)) THEN got ELSE base

NextCounter ==
  IF kind = "stable" /\ polled /\ Equal(base.on, got.on, backend) THEN counter + 1 ELSE 0

Recent(w) == IF Len(w) > Consecutive + 1 THEN Tail(w) ELSE w

(* The read returns and is judged.                                         *)
Return ==
  /\ pc = "return"
  /\ polled' = TRUE
  /\ window' = IF kind = "stable" THEN Recent(Append(window, got.on)) ELSE window
  /\ deaf' = (deaf \/ ~got.ok)
  /\ base' = IF HasBaseline THEN NextBase ELSE base
  /\ counter' = NextCounter
  /\ seen' = (seen \/ (kind = "transient" /\ Matching(got.on) # {}))
  /\ IF Satisfied
     THEN End([status |-> "met"])
     ELSE pc' = "check" /\ UNCHANGED result
  /\ UNCHANGED <<kind, backend, now, shown, since, got>>

\* Mutation: a wait goes on as long as something matches.
BugExpired == now >= Timeout /\ Matching(got.on) = {}

\* Mutation: the deadline is missed by a tick.
LateExpired == now > Timeout

(* The deadline is looked at after a read, so there is always one read.    *)
Expired == now >= Timeout

(* wait --transient answers at its deadline; all others time out then.     *)
Late ==
  IF kind = "transient" /\ Matching(got.on) # {} THEN "met"
  ELSE IF kind = "transient" /\ seen THEN "gone" ELSE "timeout"

Check ==
  /\ pc = "check"
  /\ IF Expired
     THEN End([status |-> Late]) /\ UNCHANGED since
     ELSE pc' = "sleep" /\ since' = now /\ UNCHANGED result
  /\ UNCHANGED <<kind, backend, now, shown, got, base, counter, seen, polled, window, deaf>>

Wake ==
  /\ pc = "sleep" /\ now >= since + PollInterval
  /\ pc' = "look"
  /\ since' = now
  /\ got' = NoScreen
  /\ UNCHANGED <<kind, backend, now, shown, base, counter, seen, polled, window, deaf, result>>
-----------------------------------------------------------------------------
(* Native events: a worker process registers a listener, waits for an      *)
(* event or for its own timer, which starts then; its parent gives it the  *)
(* timeout and a grace period, both counted from the start of the process. *)

Listen ==
  /\ pc = "spawn"
  /\ pc' = "listen"
  /\ since' = now
  /\ counter' = Len(shown)
  /\ UNCHANGED <<kind, backend, now, shown, got, base, seen, polled, window, deaf, result>>

(* The worker prints the event it was called back with.                    *)
Event ==
  /\ pc = "listen"
  /\ Len(shown) > counter
  /\ End([status |-> "met"])
  /\ UNCHANGED <<kind, backend, now, shown, since, got, base, counter, seen, polled, window, deaf>>

WorkerTimer ==
  /\ pc = "listen" /\ now >= since + Timeout
  /\ End([status |-> "timeout"])
  /\ UNCHANGED <<kind, backend, now, shown, since, got, base, counter, seen, polled, window, deaf>>

(* The parent kills a worker that overruns; a worker may also fail.        *)
WorkerKilled ==
  /\ pc \in {"spawn", "listen"} /\ now >= Timeout + Grace
  /\ End([status |-> "error"])
  /\ UNCHANGED <<kind, backend, now, shown, since, got, base, counter, seen, polled, window, deaf>>

WorkerFails ==
  /\ pc \in {"spawn", "listen"}
  /\ End([status |-> "error"])
  /\ UNCHANGED <<kind, backend, now, shown, since, got, base, counter, seen, polled, window, deaf>>
-----------------------------------------------------------------------------
(* The application changes its screen; time passes, but no read and no     *)
(* sleep takes longer than it may.                                         *)

Change(s) ==
  /\ pc # "done"
  /\ Len(shown) <= MaxChanges /\ s # screen
  /\ shown' = Append(shown, [at |-> now, on |-> s])
  /\ UNCHANGED <<kind, backend, now, pc, since, got, base, counter, seen, polled, window, deaf, result>>

Limit ==
  IF pc \in {"look", "return"} THEN since + MaxRead
  ELSE IF pc = "sleep" THEN since + PollInterval
  ELSE IF pc \in {"spawn", "listen"} THEN Timeout + Grace ELSE now

(* Bounds the clock of a call that would wait on; none does, see Deadline. *)
Horizon == Timeout + Interval + MaxRead + Grace + 1

Tick ==
  /\ now < Limit /\ now < Horizon
  /\ now' = now + 1
  /\ UNCHANGED <<kind, backend, shown, pc, since, got, base, counter, seen, polled, window, deaf, result>>

Step == \/ Begin \/ Capture \/ CaptureFails \/ Return \/ Check \/ Wake
        \/ Listen \/ Event \/ WorkerTimer \/ WorkerKilled \/ WorkerFails

Next == Step \/ Tick \/ \E s \in Screens : Change(s)

(* The call takes its steps and the clock runs; nobody makes the screen    *)
(* change, a read fail or a worker answer.                                 *)
Spec == /\ Init /\ [][Next]_vars
        /\ WF_vars(Tick)
        /\ WF_vars(Begin \/ Capture \/ Return \/ Check \/ Wake)
        /\ WF_vars(Listen \/ WorkerTimer \/ WorkerKilled)
-----------------------------------------------------------------------------
(* Properties.                                                             *)

Shown == 1..Len(shown)
Until(i) == IF i = Len(shown) THEN now ELSE shown[i + 1].at
On(i) == shown[i].on
Changed(P(_, _)) == \E i \in Shown : \E j \in Shown : i < j /\ P(On(i), On(j))

(* What a call answers was so while it ran: a node that is found or gone   *)
(* was there, or not, within the last read; a change is one that happened  *)
(* after the call began, not one found against a baseline that was never   *)
(* read.  (The app of a device that did not answer at first is known not   *)
(* to satisfy this: see the findings.)                                     *)
AnswerIsTrue ==
  LET recent == {i \in Shown : Until(i) >= now - MaxRead}
  IN  /\ result.status = "met" =>
           /\ kind \in {"present", "transient"} => \E i \in recent : Matching(On(i)) # {}
           /\ kind = "absent" => \E i \in recent : Matching(On(i)) = {}
           /\ kind = "screen-change" /\ Polls =>
                Changed(LAMBDA s, t : Fingerprint(s) # Fingerprint(t))
           /\ kind = "app-change" /\ base.ok =>
                Changed(LAMBDA s, t : AppOf(s) # AppOf(t))
           /\ kind = "node-appears" =>
                Changed(LAMBDA s, t : Matching(t) \ Matching(s) # {})
           /\ kind = "node-disappears" =>
                Changed(LAMBDA s, t : Matching(s) # {} /\ Matching(t) = {})
           /\ ~Polls => Len(shown) > 1
      /\ result.status = "gone" =>
           Changed(LAMBDA s, t : Matching(s) # {} /\ Matching(t) = {})

(* A call that gives up missed nothing that lasted: what it waited for was *)
(* not shown, before its last read, for longer than from one read to the   *)
(* next; for wait-stable, than the reads it needs to be sure.              *)
Pause == IF HasBaseline THEN Asked ELSE IF kind = "transient" THEN Transient ELSE Interval
Period == Pause + 2 * MaxRead
Lasted(i, span) ==
  LET last == Timeout - MaxRead
  IN  (IF Until(i) < last THEN Until(i) ELSE last) - shown[i].at > span

Patience == Period + Consecutive * (Pause + MaxRead) + MaxRead

NotWaitedFor(s) ==
  CASE kind \in {"present", "transient"} -> Matching(s) = {}
    [] kind = "absent" -> Matching(s) # {}
    [] kind = "screen-change" -> Fingerprint(s) = Fingerprint(base.on)
    [] kind = "app-change" -> AppOf(s) = AppOf(base.on)
    [] kind = "node-appears" -> Appeared(base.on, s) = {}
    [] kind = "node-disappears" -> Matching(base.on) = {} \/ Matching(s) # {}

TimeoutIsTrue ==
  result.status = "timeout" /\ Polls /\ ~deaf =>
    \A i \in Shown : IF kind = "stable" THEN ~Lasted(i, Patience)
                     ELSE Lasted(i, Period) => NotWaitedFor(On(i))

(* No call gives up early, and none overruns its timeout by more than one  *)
(* sleep and one read, or by the grace period of the event worker.         *)
DeadlineKept ==
  /\ result.status \in {"timeout", "gone"} => now >= Timeout
  /\ IF Polls THEN now < Timeout + PollInterval + MaxRead ELSE now <= Timeout + Grace

(* Stable means that so many reads in a row differ from one and the same   *)
(* earlier read by no more than the tolerance: small steps do not add up   *)
(* unnoticed.                                                              *)
StableIsQuiet ==
  kind = "stable" /\ result.status = "met" =>
    /\ Len(window) = Consecutive + 1
    /\ \A j \in 1..Len(window) : Distance(Head(window), window[j], backend) <= Tolerance

(* Every call ends, whatever the application does.                         *)
WaitsEnd == <>(pc = "done")

(***************************************************************************)
(* The inductive invariants behind AnswerIsTrue, DeadlineKept and          *)
(* StableIsQuiet: where the clock may stand at each step of a call; what   *)
(* the last read, the baseline and the memory of the target have to do     *)
(* with what was shown; and what the reads in the window have to do with   *)
(* the baseline and the counter.                                           *)
(***************************************************************************)
InTime ==
  /\ since <= now
  /\ pc = "begin" => now = 0
  /\ pc \in {"look", "return", "check"} => now <= since + MaxRead
  /\ pc \in {"look", "return"} => since < Timeout + PollInterval
  /\ pc = "sleep" => since < Timeout /\ now <= since + PollInterval
  /\ pc \in {"look", "return", "check", "sleep"} => Polls
  /\ pc \in {"spawn", "listen"} => ~Polls /\ kind \in {"screen-change", "focus-change"}
  /\ pc # "done" => result = Pending

\* The screen s was shown at or before the moment i.
WasOn(s, i) == \E j \in 1..i : On(j) = s
Matched(i) == \E j \in 1..i : Matching(On(j)) # {}

\* The last read saw what was shown at i, and the others no later than that.
ReadAt(i) ==
  /\ On(i) = got.on /\ Until(i) >= since
  /\ base.ok => WasOn(base.on, i)
  /\ seen => Matched(i)

SeenIsTrue ==
  /\ base.ok => WasOn(base.on, Len(shown))
  /\ seen => Matched(Len(shown))
  /\ pc \in {"return", "check"} /\ got.ok =>
       \E i \in Shown : ReadAt(i)
  /\ pc \in {"return", "check"} /\ kind # "app-change" => got.ok
  /\ polled /\ HasBaseline /\ kind # "app-change" => base.ok
  /\ pc = "listen" => counter > 0

\* The last counter + 1 reads equal the baseline, the first of them is it.
WindowIsTrue ==
  kind = "stable" =>
    /\ Len(window) <= Consecutive + 1
    /\ ~polled => window = <<>> /\ counter = 0
    /\ polled => /\ counter < Len(window)
                 /\ window[Len(window) - counter] = base.on
                 /\ \A j \in Len(window) - counter .. Len(window) : Equal(base.on, window[j], backend)
    /\ counter <= Consecutive
    /\ IF result.status = "met" THEN counter = Consecutive /\ polled ELSE counter < Consecutive

(***************************************************************************)
(* The inductive invariant behind TimeoutIsTrue.  The reads are close      *)
(* enough for a screen that lasts to be seen by one of them, so each that  *)
(* came before the last read was judged, unless it was short; and if       *)
(* wait-stable has not enough equal reads, the screen is new.              *)
(***************************************************************************)
Short(i) == i < Len(shown) /\ shown[i + 1].at - shown[i].at <= Period

\* The reads so far have judged each screen that came before t and lasted.
Rejected(s) == polled /\ (NotWaitedFor(s) \/ (kind = "transient" /\ seen))
JudgedUpTo(t) ==
  \A i \in Shown : shown[i].at < t /\ ~Short(i) => Rejected(On(i))

NoneIsMissed ==
  kind # "stable" /\ ~deaf =>
    /\ pc = "look" => JudgedUpTo(since - (Pause + MaxRead))
    /\ pc = "return" /\ got.ok =>
         \A i \in Shown : shown[i].at < since /\ ~Short(i) => Rejected(On(i)) \/ On(i) = got.on
    /\ pc = "check" => JudgedUpTo(since)
    /\ pc = "sleep" => JudgedUpTo(since - MaxRead)

\* The read or sleep under way began at most `rest' after the newest screen
\* appeared, or after as many equal reads of it.
SoonAfter(rest) ==
  LET n == Len(shown)
  IN  \/ since <= shown[n].at + rest
      \/ /\ polled /\ Equal(base.on, On(n), backend)
         /\ since <= shown[n].at + (counter + 1) * (Pause + MaxRead) + rest

NoneLasts ==
  kind = "stable" =>
    /\ \A i \in 1 .. Len(shown) - 1 : shown[i + 1].at - shown[i].at <= Patience
    /\ pc = "check" => SoonAfter(0)
    /\ pc = "sleep" => SoonAfter(MaxRead)
    /\ pc = "look" => SoonAfter(Pause + MaxRead)
    /\ pc = "return" => \/ since <= shown[Len(shown)].at
                        \/ got.on = On(Len(shown)) /\ SoonAfter(Pause + MaxRead)

TimeoutInvariant ==
  /\ \A i \in Shown : shown[i].at <= now
  /\ pc \in {"look", "return", "check", "sleep"} => kind # "focus-change"
  /\ pc = "begin" => ~polled /\ since = 0
  /\ NoneIsMissed
  /\ NoneLasts
  /\ TimeoutIsTrue
=============================================================================
