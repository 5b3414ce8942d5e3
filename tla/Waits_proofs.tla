---------------------------- MODULE Waits_proofs ----------------------------
(***************************************************************************)
(* The waits for every application, every timeout and every interval.      *)
(***************************************************************************)
EXTENDS Waits, SequenceTheorems, FiniteSetTheorems, TLAPS

-----------------------------------------------------------------------------
(***************************************************************************)
(* Type correctness.                                                       *)
(***************************************************************************)
Results == [status : {"pending", "met", "gone", "timeout", "unsupported", "error"}]

\* Pauses are whole and not empty.
LEMMA PausesArePositive == PollInterval \in Nat \ {0}
BY TicksAssumption DEF PollInterval

\* What is on the screen is one of the screens.
LEMMA ScreenIsShown ==
  ASSUME TypeOK
  PROVE  /\ Len(shown) \in Nat \ {0} /\ DOMAIN shown = 1 .. Len(shown)
         /\ screen = On(Len(shown)) /\ screen \in Screens
         /\ \A i \in Shown : On(i) \in Screens /\ shown[i].at \in Nat
<1>1. shown \in Seq([at : Nat, on : Screens]) /\ shown # <<>>
  BY DEF TypeOK
<1>2. Len(shown) \in Nat \ {0} /\ DOMAIN shown = 1 .. Len(shown)
  BY <1>1, LenProperties, EmptySeq
<1>3. \A i \in 1 .. Len(shown) : shown[i] \in [at : Nat, on : Screens]
  BY <1>1, <1>2, ElementOfSeq
<1> QED
  BY <1>2, <1>3 DEF screen, Last, On, Shown

\* The window keeps a read.
LEMMA WindowIsOfReads ==
  ASSUME NEW S, NEW w \in Seq(S), NEW g \in S
  PROVE  Recent(Append(w, g)) \in Seq(S)
<1>1. Append(w, g) \in Seq(S) /\ Append(w, g) # <<>>
  BY AppendProperties
<1> QED
  BY <1>1, HeadTailProperties DEF Recent

\* A step of a wait keeps the types.
LEMMA TypeIsKept ==
  ASSUME TypeOK, [Next]_vars
  PROVE  TypeOK'
<1> USE DEF TypeOK, Looks, NoScreen, Read, Pending, End
<1>1. CASE Begin
  BY <1>1 DEF Begin
<1>2. CASE Capture
  BY <1>2, ScreenIsShown DEF Capture
<1>3. CASE CaptureFails
  <2>1. NoScreen \in Looks
    OBVIOUS
  <2>2. [status |-> "error"] \in Results
    BY DEF Results
  <2> QED
    BY <1>3, <2>1, <2>2 DEF CaptureFails, Results
<1>4. CASE Return
  <2>1. window' \in Seq(Screens \cup {{}})
    BY <1>4, WindowIsOfReads DEF Return
  <2>2. base' \in Looks /\ counter' \in Nat
    BY <1>4 DEF Return, NextBase, NextCounter
  <2>3. polled' \in BOOLEAN /\ deaf' \in BOOLEAN
    BY <1>4 DEF Return
  <2>4. seen' \in BOOLEAN
    BY <1>4 DEF Return
  <2> QED
    BY <1>4, <2>1, <2>2, <2>3, <2>4 DEF Return
<1>5. CASE Check
  <2>1. [status |-> Late] \in Results
    BY DEF Results, Late
  <2> QED
    BY <1>5, <2>1 DEF Check, Results
<1>6. CASE Wake
  BY <1>6 DEF Wake
<1>7. CASE Listen
  BY <1>7, ScreenIsShown DEF Listen
<1>8. CASE Event \/ WorkerTimer \/ WorkerKilled \/ WorkerFails
  BY <1>8 DEF Event, WorkerTimer, WorkerKilled, WorkerFails
<1>9. CASE Tick
  BY <1>9 DEF Tick
<1>10. ASSUME NEW s \in Screens, Change(s) PROVE TypeOK'
  <2>1. [at |-> now, on |-> s] \in [at : Nat, on : Screens]
    OBVIOUS
  <2>2. shown' \in Seq([at : Nat, on : Screens]) /\ shown' # <<>>
    BY <1>10, <2>1, AppendProperties DEF Change
  <2> QED
    BY <1>10, <2>2 DEF Change
<1>11. CASE UNCHANGED vars
  BY <1>11 DEF vars
<1> QED
  BY <1>1, <1>2, <1>3, <1>4, <1>5, <1>6, <1>7, <1>8, <1>9, <1>10, <1>11 DEF Next, Step

\* A wait starts with all of its variables in their types.
LEMMA TypeAtInit == Init => TypeOK
<1> SUFFICES ASSUME Init PROVE TypeOK
  OBVIOUS
<1>1. PICK s \in Screens : shown = <<[at |-> 0, on |-> s]>>
  BY DEF Init
<1>2. [at |-> 0, on |-> s] \in [at : Nat, on : Screens]
  OBVIOUS
<1>3. shown \in Seq([at : Nat, on : Screens]) /\ shown # <<>>
  BY <1>1, <1>2
<1>4. window \in Seq(Screens \cup {{}})
  BY DEF Init
<1> QED
  BY <1>3, <1>4 DEF Init, TypeOK, Looks, NoScreen, Pending

\* In every state of a wait each variable has its type: the clock is a whole
\* number of ticks, a read shows a screen or nothing, the answer is one of
\* those that the use cases can give.
THEOREM WaitsTypeCorrect == Spec => []TypeOK
<1>1. Init => TypeOK
  BY TypeAtInit
<1>2. TypeOK /\ [Next]_vars => TypeOK'
  BY TypeIsKept
<1> QED
  BY <1>1, <1>2, PTL DEF Spec
-----------------------------------------------------------------------------
(***************************************************************************)
(* The deadline.                                                           *)
(***************************************************************************)

\* The kind of wait and the backend never change, nor what follows from them.
LEMMA RequestIsFixed ==
  ASSUME [Next]_vars
  PROVE  /\ kind' = kind /\ backend' = backend
         /\ Polls' = Polls /\ HasBaseline' = HasBaseline /\ PollInterval' = PollInterval
<1>1. kind' = kind /\ backend' = backend
  BY DEF Next, Step, Begin, Capture, CaptureFails, Return, Check, Wake, Listen, Event,
         WorkerTimer, WorkerKilled, WorkerFails, Tick, Change, vars
<1> QED
  BY <1>1 DEF Polls, HasBaseline, PollInterval

\* A wait that has answered takes no further step.
LEMMA DoneIsDone ==
  ASSUME [Next]_vars, pc = "done", TypeOK
  PROVE  UNCHANGED vars
<1>1. ~Tick
  BY DEF Tick, Limit, TypeOK
<1> QED
  BY <1>1 DEF Next, Step, Begin, Capture, CaptureFails, Return, Check, Wake, Listen, Event,
         WorkerTimer, WorkerKilled, WorkerFails, Change

\* The time invariant is inductive.
LEMMA TimeIsKept ==
  ASSUME TypeOK, InTime, DeadlineKept, [Next]_vars
  PROVE  InTime' /\ DeadlineKept'
<1> DEFINE P == PollInterval
<1>0. P \in Nat \ {0} /\ Timeout \in Nat \ {0} /\ MaxRead \in Nat \ {0} /\ Grace \in Nat
  BY PausesArePositive, TicksAssumption
<1>01. P' = P /\ Polls' = Polls /\ kind' = kind /\ now \in Nat /\ since \in Nat
  BY RequestIsFixed DEF TypeOK
<1> HIDE DEF P
<1>02. /\ InTime <=> /\ since <= now
                     /\ pc = "begin" => now = 0
                     /\ pc \in {"look", "return", "check"} => now <= since + MaxRead
                     /\ pc \in {"look", "return"} => since < Timeout + P
                     /\ pc = "sleep" => since < Timeout /\ now <= since + P
                     /\ pc \in {"look", "return", "check", "sleep"} => Polls
                     /\ pc \in {"spawn", "listen"} => ~Polls /\ kind \in {"screen-change", "focus-change"}
                     /\ pc # "done" => result = Pending
       /\ InTime' <=> /\ since' <= now'
                      /\ pc' = "begin" => now' = 0
                      /\ pc' \in {"look", "return", "check"} => now' <= since' + MaxRead
                      /\ pc' \in {"look", "return"} => since' < Timeout + P
                      /\ pc' = "sleep" => since' < Timeout /\ now' <= since' + P
                      /\ pc' \in {"look", "return", "check", "sleep"} => Polls
                      /\ pc' \in {"spawn", "listen"} => ~Polls /\ kind \in {"screen-change", "focus-change"}
                      /\ pc' # "done" => result' = Pending
       /\ DeadlineKept <=> /\ result.status \in {"timeout", "gone"} => now >= Timeout
                           /\ IF Polls THEN now < Timeout + P + MaxRead ELSE now <= Timeout + Grace
       /\ DeadlineKept' <=> /\ result'.status \in {"timeout", "gone"} => now' >= Timeout
                            /\ IF Polls THEN now' < Timeout + P + MaxRead ELSE now' <= Timeout + Grace
  BY <1>01 DEF InTime, DeadlineKept, P, Pending
<1> USE <1>0, <1>01, <1>02 DEF End, Pending
<1>1. CASE Begin
  <2>1. Supported /\ ~Polls => kind \in {"screen-change", "focus-change"}
    BY DEF Supported, Polls, TypeOK, Kinds
  <2> QED
    BY <1>1, <2>1 DEF Begin
<1>2. CASE Capture
  BY <1>2 DEF Capture
<1>3. CASE CaptureFails
  BY <1>3 DEF CaptureFails
<1>4. CASE Return
  BY <1>4 DEF Return
<1>5. CASE Check
  <2>1. CASE Expired
    <3>1. now >= Timeout /\ UNCHANGED <<now, since>> /\ pc' = "done"
      BY <1>5, <2>1 DEF Check, Expired
    <3> QED
      BY <3>1
  <2>2. CASE ~Expired
    <3>1. now < Timeout /\ now' = now /\ since' = now /\ pc' = "sleep" /\ UNCHANGED result
      BY <1>5, <2>2 DEF Check, Expired
    <3>2. result = Pending /\ pc = "check"
      BY <1>5 DEF Check
    <3> QED
      BY <3>1, <3>2
  <2> QED
    BY <2>1, <2>2
<1>6. CASE Wake
  BY <1>6 DEF Wake, P
<1>7. CASE Listen
  BY <1>7 DEF Listen
<1>8. CASE Event \/ WorkerTimer \/ WorkerKilled \/ WorkerFails
  BY <1>8 DEF Event, WorkerTimer, WorkerKilled, WorkerFails
<1>9. CASE Tick
  <2>1. now' = now + 1 /\ now < Limit /\ UNCHANGED <<pc, since, result>>
    BY <1>9 DEF Tick
  <2>2. CASE pc \in {"look", "return"}
    <3>1. now < since + MaxRead
      BY <2>1, <2>2 DEF Limit
    <3> QED
      BY <2>1, <2>2, <3>1
  <2>3. CASE pc = "sleep"
    <3>1. now < since + P
      BY <2>1, <2>3 DEF Limit, P
    <3> QED
      BY <2>1, <2>3, <3>1
  <2>4. CASE pc \in {"spawn", "listen"}
    <3>1. now < Timeout + Grace
      BY <2>1, <2>4 DEF Limit
    <3> QED
      BY <2>1, <2>4, <3>1
  <2>5. CASE pc \notin {"look", "return", "sleep", "spawn", "listen"}
    BY <2>1, <2>5 DEF Limit
  <2> QED
    BY <2>2, <2>3, <2>4, <2>5
<1>10. ASSUME NEW s \in Screens, Change(s) PROVE InTime' /\ DeadlineKept'
  BY <1>10 DEF Change
<1>11. CASE UNCHANGED vars
  BY <1>11 DEF vars
<1> QED
  BY <1>1, <1>2, <1>3, <1>4, <1>5, <1>6, <1>7, <1>8, <1>9, <1>10, <1>11 DEF Next, Step

\* It holds when the call begins.
LEMMA TimeAtInit == Init => InTime /\ DeadlineKept
BY PausesArePositive, TicksAssumption DEF Init, InTime, DeadlineKept, Pending

\* No call of wait, wait-stable or wait-reactive gives up before its timeout,
\* and none runs on for longer than one sleep and one read after it (the
\* grace period of the worker when it waits for a native event).
THEOREM DeadlineIsKept == Spec => []DeadlineKept
<1>1. Init => TypeOK /\ InTime /\ DeadlineKept
  BY TypeAtInit, TimeAtInit
<1>2. TypeOK /\ InTime /\ DeadlineKept /\ [Next]_vars => (TypeOK /\ InTime /\ DeadlineKept)'
  BY TypeIsKept, TimeIsKept
<1> QED
  BY <1>1, <1>2, PTL DEF Spec
-----------------------------------------------------------------------------
(***************************************************************************)
(* What is called stable.                                                  *)
(***************************************************************************)

\* Within a screen nodes have keys of their own, also on Android: a stable id
\* that is repeated is no key.
LEMMA KeysDiffer ==
  ASSUME NEW s \in Screens \cup {{}}, NEW m \in s, NEW n \in s, NEW on,
         Key(m, Repeated(s) \cup Repeated(s), on) = Key(n, Repeated(s) \cup Repeated(s), on)
  PROVE  m = n
<1> DEFINE ByStable(x) == on = "android" /\ x.stable # "" /\ x.stable \notin Repeated(s)
<1>1. s \in Screens
  OBVIOUS
<1>2. Repeated(s) \cup Repeated(s) = Repeated(s)
  OBVIOUS
<1>3. /\ Key(m, Repeated(s), on) = IF ByStable(m) THEN <<"stable", m.stable>> ELSE <<"id", m.id>>
      /\ Key(n, Repeated(s), on) = IF ByStable(n) THEN <<"stable", n.stable>> ELSE <<"id", n.id>>
      /\ Key(m, Repeated(s), on) = Key(n, Repeated(s), on)
  BY <1>2 DEF Key
<1>4. ASSUME NEW k, NEW l, NEW x, NEW y, <<k, x>> = <<l, y>> PROVE k = l /\ x = y
  BY <1>4
<1>5. "stable" # "id"
  OBVIOUS
<1>6. CASE ByStable(m) /\ ByStable(n)
  <2>1. <<"stable", m.stable>> = <<"stable", n.stable>>
    BY <1>3, <1>6
  <2>2. m.stable = n.stable
    BY <1>4, <2>1
  <2>3. m.id = n.id
    BY <1>6, <2>2 DEF Repeated
  <2> QED
    BY <1>1, <2>3, ScreensAssumption
<1>7. CASE ~ByStable(m) /\ ~ByStable(n)
  <2>1. <<"id", m.id>> = <<"id", n.id>>
    BY <1>3, <1>7
  <2>2. m.id = n.id
    BY <1>4, <2>1
  <2> QED
    BY <1>1, <2>2, ScreensAssumption
<1>8. CASE ByStable(m) /\ ~ByStable(n)
  <2>1. <<"stable", m.stable>> = <<"id", n.id>>
    BY <1>3, <1>8
  <2> QED
    BY <1>4, <1>5, <2>1
<1>9. CASE ~ByStable(m) /\ ByStable(n)
  <2>1. <<"id", m.id>> = <<"stable", n.stable>>
    BY <1>3, <1>9
  <2> QED
    BY <1>4, <1>5, <2>1
<1> QED
  BY <1>6, <1>7, <1>8, <1>9

\* A screen does not differ from itself.
LEMMA EqualToItself ==
  ASSUME NEW s \in Screens \cup {{}}, NEW on
  PROVE  Equal(s, s, on)
<1> DEFINE repeated == Repeated(s) \cup Repeated(s)
           Keys(u) == {Key(n, repeated, on) : n \in u}
           Common == {p \in s \X s : Key(p[1], repeated, on) = Key(p[2], repeated, on)}
<1>1. (Keys(s) \ Keys(s)) \cup (Keys(s) \ Keys(s)) = {}
  OBVIOUS
<1>2. \A p \in Common : p[1] = p[2]
  BY KeysDiffer
<1>3. {p \in Common : p[1].role # p[2].role} = {} /\ {p \in Common : p[1].name # p[2].name} = {}
  <2> HIDE DEF Common
  <2> QED
    BY <1>2
<1>4. Distance(s, s, on) = Cardinality((Keys(s) \ Keys(s)) \cup (Keys(s) \ Keys(s)))
                           + Cardinality({p \in Common : p[1].role # p[2].role})
                           + Cardinality({p \in Common : p[1].name # p[2].name})
  BY DEF Distance
<1> HIDE DEF Keys, Common
<1>5. Distance(s, s, on) = 0
  BY <1>1, <1>3, <1>4, FS_EmptySet
<1> QED
  BY <1>5, TicksAssumption DEF Equal

\* The window has the last reads, the newest at its end: a read moves the
\* others one place back from the end.
LEMMA WindowMoves ==
  ASSUME NEW S, NEW w \in Seq(S), NEW g \in S, Len(w) <= Consecutive + 1,
         NEW v, v = Recent(Append(w, g))
  PROVE  /\ Len(v) \in 1 .. Consecutive + 1 /\ v[Len(v)] = g
         /\ Len(v) = IF Len(w) <= Consecutive THEN Len(w) + 1 ELSE Len(w)
         /\ \A k \in 1 .. Len(v) - 1 : v[Len(v) - k] = w[Len(w) - (k - 1)]
<1> DEFINE W == Append(w, g)
<1>1. /\ W \in Seq(S) /\ W # <<>> /\ Len(W) = Len(w) + 1 /\ Len(w) \in Nat
      /\ W[Len(w) + 1] = g /\ \A i \in 1 .. Len(w) : W[i] = w[i]
  BY AppendProperties, LenProperties
<1>2. Consecutive \in Nat \ {0}
  BY TicksAssumption
<1>3. CASE Len(w) <= Consecutive
  <2>1. Recent(W) = W
    BY <1>1, <1>2, <1>3 DEF Recent
  <2> QED
    BY <1>1, <1>2, <1>3, <2>1
<1>4. CASE Len(w) = Consecutive + 1
  <2>1. Recent(W) = Tail(W)
    BY <1>1, <1>2, <1>4 DEF Recent
  <2>2. /\ Tail(W) \in Seq(S) /\ Len(Tail(W)) = Len(w)
        /\ \A i \in 1 .. Len(w) : Tail(W)[i] = W[i + 1]
    BY <1>1, HeadTailProperties
  <2>3. v = Tail(W) /\ Len(v) = Len(w) /\ v[Len(v)] = g /\ Len(v) \in 1 .. Consecutive + 1
    BY <1>1, <1>2, <1>4, <2>1, <2>2
  <2>4. ASSUME NEW k \in 1 .. Len(v) - 1 PROVE v[Len(v) - k] = w[Len(w) - (k - 1)]
    <3>1. /\ Len(v) - k \in 1 .. Len(w) /\ Len(v) - k + 1 = Len(w) - (k - 1)
          /\ Len(w) - (k - 1) \in 1 .. Len(w)
      BY <1>1, <2>3
    <3> HIDE DEF W
    <3>2. v[Len(v) - k] = W[Len(w) - (k - 1)]
      BY <2>2, <2>3, <3>1
    <3> QED
      BY <1>1, <3>1, <3>2
  <2> QED
    BY <1>2, <1>4, <2>3, <2>4
<1> QED
  BY <1>1, <1>2, <1>3, <1>4

\* The window invariant is inductive.
LEMMA WindowIsKept ==
  ASSUME TypeOK, InTime, WindowIsTrue, [Next]_vars
  PROVE  WindowIsTrue'
<1> SUFFICES ASSUME kind = "stable" PROVE WindowIsTrue'
  BY RequestIsFixed DEF WindowIsTrue
<1> DEFINE Rest == <<kind, base, counter, polled, window>>
<1>1. /\ Consecutive \in Nat \ {0} /\ counter \in Nat /\ Len(window) \in Nat
      /\ window \in Seq(Screens \cup {{}}) /\ got.on \in Screens \cup {{}}
      /\ kind' = kind /\ backend' = backend
  BY TicksAssumption, LenProperties, RequestIsFixed DEF TypeOK, Looks
<1>2. CASE Return
  <2> DEFINE L == Len(window)
  <2>1. /\ pc = "return" /\ result = Pending /\ counter < Consecutive /\ L <= Consecutive + 1
    BY <1>2 DEF Return, InTime, WindowIsTrue, Pending
  <2>2. /\ polled' = TRUE /\ window' = Recent(Append(window, got.on))
        /\ base' = NextBase /\ counter' = NextCounter
        /\ IF Satisfied THEN result' = [status |-> "met"] ELSE result' = Pending
    BY <1>2, <2>1 DEF Return, HasBaseline, End
  <2>3. /\ Len(window') \in 1 .. Consecutive + 1 /\ window'[Len(window')] = got.on
        /\ Len(window') = IF L <= Consecutive THEN L + 1 ELSE L
        /\ \A k \in 1 .. Len(window') - 1 : window'[Len(window') - k] = window[L - (k - 1)]
    <3> DEFINE S == Screens \cup {{}}
    <3> HIDE DEF S
    <3>1. window \in Seq(S) /\ got.on \in S
      BY <1>1 DEF S
    <3>2. Len(window) <= Consecutive + 1 /\ window' = Recent(Append(window, got.on))
      BY <2>1, <2>2
    <3> QED
      BY <3>1, <3>2, WindowMoves
  <2>4. CASE polled /\ Equal(base.on, got.on, backend)
    <3>1. base' = base /\ counter' = counter + 1
      BY <2>2, <2>4 DEF NextBase, NextCounter
    <3>2. counter < L /\ window[L - counter] = base.on
      BY <2>4 DEF WindowIsTrue
    <3>3. counter' < Len(window')
      BY <1>1, <2>1, <2>3, <3>1, <3>2
    <3>4. window'[Len(window') - counter'] = base.on
      BY <1>1, <2>3, <3>1, <3>2, <3>3
    <3>5. ASSUME NEW j \in Len(window') - counter' .. Len(window')
          PROVE  Equal(base.on, window'[j], backend)
      <4>1. CASE j = Len(window')
        BY <2>3, <2>4, <4>1
      <4>2. CASE j # Len(window')
        <5> DEFINE k == Len(window') - j
        <5>1. k \in 1 .. Len(window') - 1 /\ j = Len(window') - k /\ k <= counter + 1
          BY <1>1, <2>3, <3>1, <3>3, <4>2
        <5>2. window'[j] = window[L - (k - 1)]
          BY <2>3, <5>1
        <5>3. L - (k - 1) \in L - counter .. L
          BY <1>1, <5>1
        <5> QED
          BY <2>4, <5>2, <5>3 DEF WindowIsTrue
      <4> QED
        BY <4>1, <4>2
    <3>6. Satisfied <=> counter + 1 >= Consecutive
      BY <2>4 DEF Satisfied
    <3>7. IF result'.status = "met" THEN counter' = Consecutive ELSE counter' < Consecutive
      BY <1>1, <2>1, <2>2, <3>1, <3>6 DEF Pending
    <3>8. Len(window') <= Consecutive + 1 /\ counter' <= Consecutive
      BY <1>1, <2>1, <2>3, <3>1
    <3>9. polled' = TRUE /\ base'.on = base.on
      BY <2>2, <3>1
    <3> HIDE DEF L
    <3> QED
      BY <1>1, <3>3, <3>4, <3>5, <3>7, <3>8, <3>9 DEF WindowIsTrue
  <2>5. CASE ~(polled /\ Equal(base.on, got.on, backend))
    <3>1. base' = got /\ counter' = 0
      BY <2>2, <2>5 DEF NextBase, NextCounter
    <3>2. ~Satisfied
      BY <2>5 DEF Satisfied
    <3>3. \A j \in Len(window') - 0 .. Len(window') : Equal(got.on, window'[j], backend)
      <4>1. \A j \in Len(window') - 0 .. Len(window') : j = Len(window')
        BY <2>3
      <4> QED
        BY <1>1, <2>3, <4>1, EqualToItself
    <3>4. window'[Len(window') - 0] = got.on /\ 0 < Len(window')
      BY <2>3
    <3> QED
      BY <1>1, <2>2, <2>3, <3>1, <3>2, <3>3, <3>4 DEF WindowIsTrue, Pending
  <2> QED
    BY <2>4, <2>5
<1>3. CASE Check
  <2>1. result' \in {result, [status |-> "timeout"]}
    BY <1>3 DEF Check, End, Late
  <2>2. UNCHANGED Rest /\ result = Pending
    BY <1>3 DEF Check, InTime
  <2> QED
    BY <1>1, <2>1, <2>2 DEF WindowIsTrue, Pending
<1>4. CASE Begin \/ CaptureFails \/ WorkerFails \/ WorkerTimer \/ WorkerKilled
  <2>1. UNCHANGED Rest /\ result = Pending /\ result'.status # "met"
    BY <1>4 DEF Begin, CaptureFails, WorkerFails, WorkerTimer, WorkerKilled, End, InTime, Pending
  <2> QED
    BY <1>1, <2>1 DEF WindowIsTrue, Pending
<1>5. CASE Listen \/ Event
  BY <1>5 DEF Listen, Event, InTime, Polls
<1>6. CASE Capture \/ Wake \/ Tick \/ UNCHANGED vars
  BY <1>6 DEF Capture, Wake, Tick, vars, WindowIsTrue
<1>7. ASSUME NEW s \in Screens, Change(s) PROVE WindowIsTrue'
  BY <1>7 DEF Change, WindowIsTrue
<1> QED
  BY <1>2, <1>3, <1>4, <1>5, <1>6, <1>7 DEF Next, Step

\* It holds when the call begins.
LEMMA WindowAtInit == Init => WindowIsTrue
BY TicksAssumption DEF Init, WindowIsTrue, Pending

\* When wait-stable answers that the screen is stable, as many reads in a row
\* as were asked for differ from one read before them by no more than the
\* tolerance: small steps never add up to a change that nobody noticed.
THEOREM StableIsSure == Spec => []StableIsQuiet
<1>1. Init => TypeOK /\ InTime /\ DeadlineKept /\ WindowIsTrue
  BY TypeAtInit, TimeAtInit, WindowAtInit
<1>2. TypeOK /\ InTime /\ DeadlineKept /\ WindowIsTrue /\ [Next]_vars
        => (TypeOK /\ InTime /\ DeadlineKept /\ WindowIsTrue)'
  BY TypeIsKept, TimeIsKept, WindowIsKept
<1>3. TypeOK /\ WindowIsTrue => StableIsQuiet
  <2> SUFFICES ASSUME TypeOK, WindowIsTrue, kind = "stable", result.status = "met"
               PROVE  /\ Len(window) = Consecutive + 1
                      /\ \A j \in 1 .. Len(window) : Distance(Head(window), window[j], backend) <= Tolerance
    BY DEF StableIsQuiet
  <2>1. Consecutive \in Nat \ {0} /\ Len(window) \in Nat
    BY TicksAssumption, LenProperties DEF TypeOK
  <2>2. Len(window) = Consecutive + 1 /\ Len(window) - counter = 1
    BY <2>1 DEF WindowIsTrue
  <2>3. window[1] = base.on /\ \A j \in 1 .. Len(window) : Equal(base.on, window[j], backend)
    BY <2>2 DEF WindowIsTrue
  <2> QED
    BY <2>2, <2>3 DEF Equal
<1> QED
  BY <1>1, <1>2, <1>3, PTL DEF Spec
-----------------------------------------------------------------------------
(***************************************************************************)
(* What an answer says.                                                    *)
(***************************************************************************)

\* What was shown stays where it is in the history, and lasts no less.
LEMMA HistoryGrows ==
  ASSUME TypeOK, [Next]_vars
  PROVE  /\ Len(shown) \in Nat \ {0} /\ Len(shown)' \in Nat /\ Len(shown) <= Len(shown)'
         /\ \A i \in Shown : On(i)' = On(i) /\ Until(i) \in Nat /\ Until(i)' \in Nat
                             /\ Until(i) <= Until(i)'
<1>1. /\ Len(shown) \in Nat \ {0} /\ now \in Nat
      /\ \A i \in 1 .. Len(shown) : shown[i].at \in Nat
  BY ScreenIsShown DEF TypeOK, Shown
<1>2. CASE now' \in Nat /\ now' >= now /\ shown' = shown
  BY <1>1, <1>2 DEF Shown, Until, On
<1>3. ASSUME NEW s \in Screens, Change(s)
      PROVE  /\ Len(shown)' \in Nat /\ Len(shown) <= Len(shown)'
             /\ \A i \in Shown : On(i)' = On(i) /\ Until(i) \in Nat /\ Until(i)' \in Nat
                                 /\ Until(i) <= Until(i)'
  <2> DEFINE e == [at |-> now, on |-> s]
  <2>1. e \in [at : Nat, on : Screens] /\ e.at = now
    BY <1>1
  <2>2. now' = now /\ shown' = Append(shown, e)
    BY <1>3 DEF Change
  <2> HIDE DEF e
  <2>3. /\ Len(shown') = Len(shown) + 1 /\ shown'[Len(shown) + 1] = e
        /\ \A i \in 1 .. Len(shown) : shown'[i] = shown[i]
    BY <2>1, <2>2, AppendProperties DEF TypeOK
  <2> QED
    BY <1>1, <2>1, <2>2, <2>3 DEF Shown, Until, On
<1>4. ASSUME \A s \in Screens : ~Change(s) PROVE now' \in Nat /\ now' >= now /\ shown' = shown
  BY <1>1, <1>4 DEF Next, Step, Begin, Capture, CaptureFails, Return, Check, Wake, Listen,
         Event, WorkerTimer, WorkerKilled, WorkerFails, Tick, vars
<1> QED
  BY <1>1, <1>2, <1>3, <1>4

\* So what was on, or matched, by some moment of the history still was.
LEMMA HistoryStays ==
  ASSUME TypeOK, [Next]_vars, NEW i \in Shown, NEW k, k \in 1 .. Len(shown)', i <= k
  PROVE  /\ \A s : WasOn(s, i) => \E j \in 1 .. k : On(j)' = s
         /\ Matched(i) => \E j \in 1 .. k : Matching(On(j)') # {}
<1>1. \A j \in 1 .. i : j \in 1 .. k /\ On(j)' = On(j)
  BY HistoryGrows DEF Shown
<1> QED
  BY <1>1 DEF WasOn, Matched

\* The invariant about what was seen is inductive.
LEMMA SeenIsKept ==
  ASSUME TypeOK, InTime, SeenIsTrue, [Next]_vars
  PROVE  SeenIsTrue'
<1>0. /\ Len(shown) \in Nat \ {0} /\ Len(shown) \in Shown /\ Len(shown)' \in Nat
      /\ Len(shown) <= Len(shown)' /\ Len(shown)' \in 1 .. Len(shown)'
  BY HistoryGrows DEF Shown
<1>1. /\ \A s : WasOn(s, Len(shown)) => \E j \in 1 .. Len(shown)' : On(j)' = s
      /\ Matched(Len(shown)) => \E j \in 1 .. Len(shown)' : Matching(On(j)') # {}
  BY <1>0, HistoryStays
<1>2. kind' = kind /\ HasBaseline' = HasBaseline
  BY RequestIsFixed
<1>3. CASE Capture
  <2>1. /\ pc' = "return" /\ got' = Read(screen)
        /\ UNCHANGED <<base, seen, shown, now, since, polled, counter>>
    BY <1>3 DEF Capture
  <2>2. On(Len(shown)) = screen /\ Until(Len(shown)) = now /\ since <= now
    BY ScreenIsShown DEF Until, InTime
  <2>3. WasOn(base.on, Len(shown))' <=> WasOn(base.on, Len(shown))
    BY <2>1 DEF WasOn, On
  <2>4. Matched(Len(shown))' <=> Matched(Len(shown))
    BY <2>1 DEF Matched, On
  <2>5. /\ On(Len(shown))' = got'.on /\ Until(Len(shown))' >= since' /\ Len(shown) \in Shown'
    BY <1>0, <2>1, <2>2 DEF On, Until, Read, Shown
  <2>6. ReadAt(Len(shown))'
    BY <2>1, <2>3, <2>4, <2>5 DEF ReadAt, SeenIsTrue
  <2> QED
    BY <1>2, <2>1, <2>3, <2>4, <2>5, <2>6 DEF SeenIsTrue, Read
<1>4. CASE Return
  <2>1. /\ pc = "return" /\ UNCHANGED <<shown, now, since, got>>
        /\ base' \in {base, got} /\ (seen' => seen \/ Matching(got.on) # {})
        /\ pc' \in {"check", "done"}
    BY <1>4 DEF Return, NextBase, End
  <2>2. ASSUME NEW i \in Shown, ReadAt(i)
        PROVE  /\ ReadAt(i)' /\ i \in Shown'
               /\ base'.ok => WasOn(base.on, Len(shown))'
               /\ seen' => Matched(Len(shown))'
    <3>1. i \in 1 .. i /\ i \in 1 .. Len(shown) /\ \A j \in 1 .. i : j \in 1 .. Len(shown)
      BY <1>0 DEF Shown
    <3>2. On(i) = got.on /\ \A j : On(j)' = On(j)
      BY <2>1, <2>2 DEF ReadAt, On
    <3>3. base'.ok => WasOn(base.on, i)'
      BY <2>1, <2>2, <3>1, <3>2 DEF ReadAt, WasOn
    <3>4. seen' => Matched(i)'
      BY <2>1, <2>2, <3>1, <3>2 DEF ReadAt, Matched
    <3>5. On(i)' = got'.on /\ Until(i)' >= since' /\ i \in Shown'
      BY <2>1, <2>2, <3>2 DEF ReadAt, Until, Shown
    <3> QED
      BY <2>1, <3>1, <3>3, <3>4, <3>5 DEF ReadAt, WasOn, Matched
  <2>3. got.ok => SeenIsTrue'
    BY <1>2, <2>1, <2>2, <1>4 DEF SeenIsTrue, Return, NextBase
  <2>4. ASSUME ~got.ok PROVE SeenIsTrue'
    <3>1. kind = "app-change" /\ got' = got /\ ~got'.ok
      BY <2>1, <2>4 DEF SeenIsTrue
    <3>2. (seen' => seen) /\ (base'.ok => base' = base)
      BY <1>4, <2>1, <2>4, <3>1 DEF Return
    <3>3. (base'.ok => WasOn(base.on, Len(shown))') /\ (seen' => Matched(Len(shown))')
      BY <2>1, <3>2 DEF SeenIsTrue, WasOn, Matched, On
    <3> QED
      BY <1>2, <2>1, <3>1, <3>3 DEF SeenIsTrue
  <2> QED
    BY <2>3, <2>4
<1>5. ASSUME UNCHANGED <<base, seen, polled>>, pc' = "listen" => counter' > 0,
             \/ pc' \notin {"return", "check"}
             \/ pc' = "return" /\ kind = "app-change" /\ ~got'.ok
             \/ pc \in {"return", "check"} /\ UNCHANGED <<got, since>>
      PROVE  SeenIsTrue'
  <2>1. (base'.ok => WasOn(base.on, Len(shown))') /\ (seen' => Matched(Len(shown))')
    BY <1>1, <1>5 DEF SeenIsTrue, WasOn, Matched
  <2>2. ASSUME NEW i \in Shown, ReadAt(i), UNCHANGED <<got, since>>
        PROVE  ReadAt(i)' /\ i \in Shown'
    <3>1. /\ i \in Shown' /\ i \in 1 .. Len(shown)' /\ i \in Nat /\ i <= i
          /\ On(i)' = On(i) /\ Until(i)' >= since'
      BY <1>0, <2>2, HistoryGrows DEF Shown, ReadAt, TypeOK
    <3>2. /\ WasOn(base.on, i) => \E j \in 1 .. i : On(j)' = base.on
          /\ Matched(i) => \E j \in 1 .. i : Matching(On(j)') # {}
      BY <3>1, HistoryStays
    <3>3. (base'.ok => WasOn(base.on, i)') /\ (seen' => Matched(i)')
      BY <1>5, <2>2, <3>2 DEF ReadAt, WasOn, Matched
    <3> QED
      BY <2>2, <3>1, <3>3 DEF ReadAt
  <2> QED
    BY <1>2, <1>5, <2>1, <2>2 DEF SeenIsTrue
<1>6. CASE Begin \/ Check \/ Wake \/ Event \/ WorkerTimer \/ WorkerKilled \/ WorkerFails
  <2>1. UNCHANGED <<base, seen, polled>> /\ pc' \notin {"return", "check", "listen"}
    BY <1>6 DEF Begin, Check, Wake, Event, WorkerTimer, WorkerKilled, WorkerFails, End
  <2> QED
    BY <1>5, <2>1
<1>7. CASE CaptureFails
  <2>1. /\ UNCHANGED <<base, seen, polled>>
        /\ pc' = "done" \/ (pc' = "return" /\ kind = "app-change" /\ ~got'.ok)
    BY <1>7 DEF CaptureFails, End, NoScreen
  <2> QED
    BY <1>5, <2>1
<1>8. CASE Listen
  <2>1. UNCHANGED <<base, seen, polled>> /\ pc' = "listen" /\ counter' > 0
    BY <1>0, <1>8 DEF Listen
  <2> QED
    BY <1>5, <2>1
<1>9. ASSUME UNCHANGED <<base, seen, polled, pc, counter, got, since>> PROVE SeenIsTrue'
  BY <1>5, <1>9 DEF SeenIsTrue
<1>10. CASE Tick \/ (\E s \in Screens : Change(s)) \/ UNCHANGED vars
  BY <1>9, <1>10 DEF Tick, Change, vars
<1> QED
  BY <1>3, <1>4, <1>6, <1>7, <1>8, <1>10 DEF Next, Step

\* It holds when the call begins.
LEMMA SeenAtInit == Init => SeenIsTrue
BY DEF Init, SeenIsTrue, NoScreen

\* What a read saw was shown within the last MaxRead ticks.
LEMMA ReadIsRecent ==
  ASSUME TypeOK, InTime, SeenIsTrue, pc \in {"return", "check"}, got.ok
  PROVE  \E i \in Shown : ReadAt(i) /\ Until(i) >= now - MaxRead
<1>1. PICK i \in Shown : ReadAt(i)
  BY DEF SeenIsTrue
<1>2. now <= since + MaxRead /\ now \in Nat /\ since \in Nat /\ MaxRead \in Nat
  BY TicksAssumption DEF InTime, TypeOK
<1>3. Until(i) >= since /\ Until(i) \in Nat
  <2>1. /\ Len(shown) \in Nat /\ i \in 1 .. Len(shown)
        /\ \A j \in 1 .. Len(shown) : shown[j].at \in Nat
    BY ScreenIsShown DEF Shown
  <2>2. Until(i) \in Nat
    BY <1>2, <2>1 DEF Until
  <2> QED
    BY <1>1, <2>2 DEF ReadAt
<1> QED
  BY <1>1, <1>2, <1>3

\* A baseline that differs from the last read was shown before it.
LEMMA BaselineCameFirst ==
  ASSUME TypeOK, InTime, SeenIsTrue, pc \in {"return", "check"}, got.ok, base.ok,
         base.on # got.on
  PROVE  \E i \in Shown : \E j \in Shown : i < j /\ On(i) = base.on /\ On(j) = got.on
<1>1. PICK j \in Shown : ReadAt(j)
  BY DEF SeenIsTrue
<1>2. PICK i \in 1 .. j : On(i) = base.on
  BY <1>1 DEF ReadAt, WasOn
<1>3. i \in Shown /\ i < j
  BY <1>1, <1>2, ScreenIsShown DEF ReadAt, Shown
<1> QED
  BY <1>1, <1>2, <1>3 DEF ReadAt

\* A return that is satisfied gives a true answer.
LEMMA ReturnIsTrue ==
  ASSUME TypeOK, InTime, SeenIsTrue, Return
  PROVE  AnswerIsTrue'
<1>1. /\ pc = "return" /\ Polls /\ kind' = kind /\ Polls' = Polls /\ result = Pending
      /\ UNCHANGED <<shown, now>>
  BY DEF Return, InTime, Polls
<1>2. CASE ~Satisfied
  <2>1. result'.status = "pending"
    BY <1>1, <1>2 DEF Return, Pending
  <2> QED
    BY <2>1 DEF AnswerIsTrue
<1>3. CASE Satisfied
  <2>1. result'.status = "met"
    BY <1>3 DEF Return, End
  <2>2. kind # "transient"
    BY <1>3 DEF Satisfied
  <2>3. kind \in {"present", "absent"} => \E i \in Shown : On(i) = got.on /\ Until(i) >= now - MaxRead
    BY <1>1, ReadIsRecent DEF SeenIsTrue, ReadAt
  <2>4. kind \in {"screen-change", "app-change", "node-appears", "node-disappears"} =>
          base' = base /\ polled /\ got.ok
    BY <1>1, <1>3 DEF Return, NextBase, HasBaseline, Satisfied, SeenIsTrue
  <2>5. kind \in {"screen-change", "node-appears", "node-disappears"} => base.ok
    BY <2>4 DEF SeenIsTrue, HasBaseline
  <2>6. kind \in {"screen-change", "app-change", "node-appears", "node-disappears"}
        /\ base.ok => base.on # got.on
    BY <1>3 DEF Satisfied, Appeared
  <2>7. kind \in {"screen-change", "app-change", "node-appears", "node-disappears"}
        /\ base.ok => \E i \in Shown : \E j \in Shown : i < j /\ On(i) = base.on /\ On(j) = got.on
    BY <1>1, <2>4, <2>6, BaselineCameFirst
  <2>8. /\ Shown' = Shown /\ \A i : On(i)' = On(i) /\ Until(i)' = Until(i)
    BY <1>1 DEF Shown, On, Until
  <2>9. CASE kind \in {"present", "absent"}
    BY <1>1, <1>3, <2>1, <2>2, <2>3, <2>8, <2>9 DEF AnswerIsTrue, Satisfied
  <2>10. CASE kind = "screen-change"
    BY <1>1, <1>3, <2>1, <2>5, <2>7, <2>8, <2>10 DEF AnswerIsTrue, Satisfied, Changed
  <2>11. CASE kind = "app-change"
    BY <1>1, <1>3, <2>1, <2>4, <2>7, <2>8, <2>11 DEF AnswerIsTrue, Satisfied, Changed
  <2>12. CASE kind = "node-appears"
    BY <1>1, <1>3, <2>1, <2>5, <2>7, <2>8, <2>12 DEF AnswerIsTrue, Satisfied, Changed, Appeared
  <2>13. CASE kind = "node-disappears"
    BY <1>1, <1>3, <2>1, <2>5, <2>7, <2>8, <2>13 DEF AnswerIsTrue, Satisfied, Changed
  <2>14. CASE kind \in {"stable", "focus-change"}
    BY <1>1, <1>3, <2>1, <2>14 DEF AnswerIsTrue, Satisfied
  <2> QED
    BY <2>2, <2>9, <2>10, <2>11, <2>12, <2>13, <2>14 DEF TypeOK, Kinds
<1> QED
  BY <1>2, <1>3

\* What wait --transient answers at its deadline is true.
LEMMA CheckIsTrue ==
  ASSUME TypeOK, InTime, SeenIsTrue, Check
  PROVE  AnswerIsTrue'
<1>1. /\ pc = "check" /\ Polls /\ kind' = kind /\ Polls' = Polls /\ result = Pending
      /\ UNCHANGED <<shown, now>>
  BY DEF Check, InTime, Polls
<1>2. /\ Shown' = Shown /\ \A i : On(i)' = On(i) /\ Until(i)' = Until(i)
  BY <1>1 DEF Shown, On, Until
<1>3. CASE kind = "transient"
  <2>1. got.ok
    BY <1>1, <1>3 DEF SeenIsTrue
  <2>2. PICK i \in Shown : ReadAt(i) /\ Until(i) >= now - MaxRead
    BY <1>1, <2>1, ReadIsRecent
  <2>3. CASE Matching(got.on) # {}
    <3>1. result'.status \in {"pending", "met"}
      BY <1>1, <1>3, <2>3 DEF Check, End, Late, Pending
    <3> QED
      BY <1>1, <1>2, <1>3, <2>2, <2>3, <3>1 DEF AnswerIsTrue, ReadAt
  <2>4. CASE Matching(got.on) = {} /\ seen
    <3>1. result'.status \in {"pending", "gone"}
      BY <1>1, <1>3, <2>4 DEF Check, End, Late, Pending
    <3>2. PICK j \in 1 .. i : Matching(On(j)) # {}
      BY <2>2, <2>4 DEF ReadAt, Matched
    <3>3. j \in Shown /\ j < i /\ Matching(On(i)) = {}
      BY <2>2, <2>4, <3>2, ScreenIsShown DEF ReadAt, Shown
    <3> QED
      BY <1>2, <3>1, <3>2, <3>3 DEF AnswerIsTrue, Changed
  <2>5. CASE Matching(got.on) = {} /\ ~seen
    <3>1. result'.status \in {"pending", "timeout"}
      BY <1>1, <1>3, <2>5 DEF Check, End, Late, Pending
    <3> QED
      BY <3>1 DEF AnswerIsTrue
  <2> QED
    BY <2>3, <2>4, <2>5
<1>4. CASE kind # "transient"
  <2>1. result'.status \in {"pending", "timeout"}
    BY <1>1, <1>4 DEF Check, End, Late, Pending
  <2> QED
    BY <2>1 DEF AnswerIsTrue
<1> QED
  BY <1>3, <1>4

\* A native event is one: the screen changed after the worker listened.
LEMMA EventIsTrue ==
  ASSUME TypeOK, InTime, SeenIsTrue, Event
  PROVE  AnswerIsTrue'
<1>1. /\ pc = "listen" /\ kind' = kind /\ Polls' = Polls /\ shown' = shown
      /\ Len(shown) > counter /\ result'.status = "met"
  BY DEF Event, Polls, End
<1>2. ~Polls /\ kind \in {"screen-change", "focus-change"}
  BY <1>1 DEF InTime
<1>3. Len(shown) \in Nat /\ counter \in Nat /\ counter > 0
  BY <1>1, ScreenIsShown DEF SeenIsTrue, TypeOK
<1> QED
  BY <1>1, <1>2, <1>3 DEF AnswerIsTrue, Changed

\* Every step keeps the answers true.
LEMMA AnswerIsKept ==
  ASSUME TypeOK, InTime, SeenIsTrue, AnswerIsTrue, [Next]_vars
  PROVE  AnswerIsTrue'
<1>1. CASE pc = "done"
  <2>1. UNCHANGED vars
    BY <1>1, DoneIsDone
  <2> QED
    BY <2>1 DEF vars, AnswerIsTrue, Changed, Shown, Until, On, Polls
<1>2. CASE Return \/ Check \/ Event
  BY <1>2, ReturnIsTrue, CheckIsTrue, EventIsTrue
<1>3. ASSUME pc # "done", ~(Return \/ Check \/ Event) PROVE AnswerIsTrue'
  <2>1. result = Pending
    BY <1>3 DEF InTime
  <2>2. \/ result' = result
        \/ result' \in {[status |-> st] : st \in {"timeout", "unsupported", "error"}}
    BY <1>3 DEF Next, Step, Begin, Capture, CaptureFails, Wake, Listen,
         WorkerTimer, WorkerKilled, WorkerFails, Tick, Change, vars, End
  <2>3. result'.status \in {"pending", "timeout", "unsupported", "error"}
    BY <2>1, <2>2 DEF Pending
  <2> QED
    BY <2>3 DEF AnswerIsTrue
<1> QED
  BY <1>1, <1>2, <1>3

\* What a wait answers was so while it ran, for every application and every
\* timing: a node that wait found, or missed, was there, or not, within its
\* last read; what wait --transient calls gone was there and went; a change
\* that wait-reactive reports happened after the call began (after the first
\* answer of the device, for the app in front).
THEOREM AnswersAreTrue == Spec => []AnswerIsTrue
<1> DEFINE Inv == TypeOK /\ InTime /\ DeadlineKept /\ SeenIsTrue /\ AnswerIsTrue
<1>1. Init => Inv
  BY TypeAtInit, TimeAtInit, SeenAtInit DEF Init, Pending, AnswerIsTrue
<1>2. Inv /\ [Next]_vars => Inv'
  BY TypeIsKept, TimeIsKept, SeenIsKept, AnswerIsKept
<1> QED
  BY <1>1, <1>2, PTL DEF Spec
-----------------------------------------------------------------------------
(***************************************************************************)
(* What a call that gives up has not missed.                               *)
(***************************************************************************)

\* The step from one read to the next, and the numbers it is made of.
Stride == Pause + MaxRead

LEMMA StrideIs ==
  /\ Pause \in Nat \ {0} /\ MaxRead \in Nat \ {0} /\ Consecutive \in Nat \ {0}
  /\ Stride \in Nat \ {0} /\ Pause = PollInterval
  /\ Period = Stride + MaxRead
  /\ Patience = Period + Consecutive * Stride + MaxRead
  /\ Consecutive * Stride \in Nat
<1>1. Pause \in Nat \ {0} /\ MaxRead \in Nat \ {0} /\ Consecutive \in Nat \ {0}
  BY TicksAssumption DEF Pause
<1>2. Stride \in Nat \ {0} /\ Consecutive * Stride \in Nat
  BY <1>1 DEF Stride
<1> QED
  BY <1>1, <1>2 DEF Stride, Period, Patience, Pause, PollInterval

\* Strides add up.
LEMMA StridesAdd ==
  ASSUME NEW q \in Nat, NEW j \in Nat
  PROVE  /\ j * q \in Nat /\ (j + 1) * q = j * q + q
         /\ \A k \in Nat : j <= k => j * q <= k * q
OBVIOUS

\* Each screen appeared at a moment of the call; only a change adds one.
LEMMA MomentsAre ==
  ASSUME TypeOK
  PROVE  /\ Len(shown) \in Nat \ {0} /\ Len(shown) \in Shown
         /\ \A i \in Shown : i \in Nat \ {0} /\ i <= Len(shown) /\ shown[i].at \in Nat
         /\ Shown = 1 .. Len(shown)
BY ScreenIsShown DEF Shown

\* A change adds the screen at its end.
LEMMA ChangeAdds ==
  ASSUME TypeOK, NEW s \in Screens, Change(s)
  PROVE  /\ Len(shown') = Len(shown) + 1
         /\ shown'[Len(shown) + 1].at = now /\ shown'[Len(shown) + 1].on = s
         /\ \A i \in Shown : shown'[i] = shown[i]
         /\ Shown' = Shown \cup {Len(shown) + 1}
<1> DEFINE e == [at |-> now, on |-> s]
<1>1. e \in [at : Nat, on : Screens] /\ e.at = now /\ e.on = s
  BY DEF TypeOK
<1>2. shown' = Append(shown, e)
  BY DEF Change
<1> HIDE DEF e
<1>3. /\ Len(shown') = Len(shown) + 1 /\ shown'[Len(shown) + 1] = e
      /\ \A i \in 1 .. Len(shown) : shown'[i] = shown[i]
  BY <1>1, <1>2, AppendProperties DEF TypeOK
<1>4. Len(shown) \in Nat
  BY MomentsAre
<1>5. Shown' = Shown \cup {Len(shown) + 1}
  BY <1>3, <1>4 DEF Shown
<1>6. \A i \in Shown : shown'[i] = shown[i]
  BY <1>3 DEF Shown
<1> QED
  BY <1>1, <1>3, <1>5, <1>6

\* No screen appears in the future; what supports no wait is not read.
LEMMA MomentsKept ==
  ASSUME TypeOK, InTime, TimeoutInvariant, [Next]_vars
  PROVE  /\ \A i \in Shown' : shown'[i].at <= now'
         /\ pc' \in {"look", "return", "check", "sleep"} => kind' # "focus-change"
         /\ pc' = "begin" => ~polled' /\ since' = 0
<1>1. kind' = kind
  BY RequestIsFixed
<1>2. CASE \A s \in Screens : ~Change(s)
  <2>1. shown' = shown /\ now' \in Nat /\ now <= now' /\ now \in Nat
    BY <1>2 DEF Next, Step, Begin, Capture, CaptureFails, Return, Check, Wake, Listen,
           Event, WorkerTimer, WorkerKilled, WorkerFails, Tick, vars, TypeOK
  <2>2. \A i \in Shown' : shown'[i].at <= now'
    BY <2>1, MomentsAre DEF TimeoutInvariant, Shown
  <2>3. pc' = "begin" => pc = "begin" /\ UNCHANGED <<polled, since>>
    BY <1>2 DEF Next, Step, Begin, Capture, CaptureFails, Return, Check, Wake, Listen,
           Event, WorkerTimer, WorkerKilled, WorkerFails, Tick, vars, End
  <2>4. pc' \in {"look", "return", "check", "sleep"} =>
           pc \in {"look", "return", "check", "sleep"} \/ Begin
    BY <1>2 DEF Next, Step, Begin, Capture, CaptureFails, Return, Check, Wake, Listen,
           Event, WorkerTimer, WorkerKilled, WorkerFails, Tick, vars, End
  <2>5. Begin /\ pc' = "look" => kind # "focus-change"
    BY DEF Begin, Supported, End, Polls, TypeOK
  <2>6. Begin => pc' \notin {"return", "check", "sleep"}
    BY DEF Begin, End
  <2> QED
    BY <1>1, <2>2, <2>3, <2>4, <2>5, <2>6 DEF TimeoutInvariant
<1>3. ASSUME NEW s \in Screens, Change(s)
      PROVE  /\ \A i \in Shown' : shown'[i].at <= now'
             /\ pc' \in {"look", "return", "check", "sleep"} => kind' # "focus-change"
             /\ pc' = "begin" => ~polled' /\ since' = 0
  <2>1. now' = now /\ now \in Nat /\ UNCHANGED <<pc, polled, since>>
    BY <1>3 DEF Change, TypeOK
  <2> QED
    BY <1>1, <1>3, <2>1, ChangeAdds DEF TimeoutInvariant
<1> QED
  BY <1>2, <1>3

-----------------------------------------------------------------------------
(* All waits but wait-stable.                                              *)

\* A read that is not what the call waits for rejects its screen, and the
\* screens that earlier reads rejected.
LEMMA ReturnRejects ==
  ASSUME TypeOK, SeenIsTrue, kind # "stable", kind # "focus-change", Return, got.ok, ~Satisfied
  PROVE  /\ Rejected(got.on)'
         /\ \A s : Rejected(s) => Rejected(s)'
<1>1. /\ kind' = kind /\ got' = got /\ polled' = TRUE
      /\ base' = IF HasBaseline /\ ~polled THEN got ELSE base
      /\ seen' = (seen \/ (kind = "transient" /\ Matching(got.on) # {}))
  BY DEF Return, NextBase
<1>2. \A s : Rejected(s) => base' = base /\ (seen => seen')
  BY <1>1 DEF Rejected
<1>3. ASSUME NEW s, Rejected(s) PROVE Rejected(s)'
  BY <1>1, <1>2, <1>3 DEF Rejected, NotWaitedFor, Appeared
<1>4. Rejected(got.on)'
  <2>1. CASE kind \in {"present", "absent", "transient"}
    BY <1>1, <2>1 DEF Rejected, NotWaitedFor, Satisfied
  <2>2. CASE kind \in {"screen-change", "app-change"}
    <3>1. CASE polled
      BY <1>1, <2>2, <3>1 DEF Rejected, NotWaitedFor, Satisfied
    <3>2. CASE ~polled
      BY <1>1, <2>2, <3>2 DEF Rejected, NotWaitedFor, HasBaseline
    <3> QED
      BY <3>1, <3>2
  <2>3. CASE kind = "node-appears"
    <3>1. CASE polled
      BY <1>1, <2>3, <3>1 DEF Rejected, NotWaitedFor, Satisfied, Appeared
    <3>2. CASE ~polled
      BY <1>1, <2>3, <3>2 DEF Rejected, NotWaitedFor, HasBaseline, Appeared
    <3> QED
      BY <3>1, <3>2
  <2>4. CASE kind = "node-disappears"
    <3>1. CASE polled
      BY <1>1, <2>4, <3>1 DEF Rejected, NotWaitedFor, Satisfied
    <3>2. CASE ~polled
      BY <1>1, <2>4, <3>2 DEF Rejected, NotWaitedFor, HasBaseline
    <3> QED
      BY <3>1, <3>2
  <2> QED
    BY <2>1, <2>2, <2>3, <2>4 DEF TypeOK, Kinds
<1> QED
  BY <1>3, <1>4

LEMMA NoneIsMissedKept ==
  ASSUME TypeOK, InTime, SeenIsTrue, TimeoutInvariant, [Next]_vars
  PROVE  NoneIsMissed'
<1> SUFFICES ASSUME kind # "stable", ~deaf' PROVE NoneIsMissed'
  BY RequestIsFixed DEF NoneIsMissed
<1>0. kind' = kind /\ Pause' = Pause /\ Period' = Period
  <2>1. kind' = kind
    BY RequestIsFixed
  <2> QED
    BY <2>1 DEF Pause, Period, HasBaseline
<1>1. ~deaf
  BY DEF Next, Step, Begin, Capture, CaptureFails, Return, Check, Wake, Listen, Event,
         WorkerTimer, WorkerKilled, WorkerFails, Tick, Change, vars
<1>2. /\ NoneIsMissed /\ \A i \in Shown : shown[i].at <= now
      /\ pc \in {"look", "return", "check", "sleep"} => kind # "focus-change"
      /\ pc = "begin" => ~polled /\ since = 0
  BY DEF TimeoutInvariant
<1>3. /\ now \in Nat /\ since \in Nat /\ Pause \in Nat \ {0} /\ MaxRead \in Nat \ {0}
      /\ Pause = PollInterval /\ Period = Pause + MaxRead + MaxRead
  BY StrideIs DEF TypeOK, Stride
<1>4. \A i \in Shown : shown[i].at \in Nat /\ i \in Nat /\ i <= Len(shown)
  BY MomentsAre
<1>5. ASSUME UNCHANGED shown
      PROVE  Shown' = Shown /\ \A i : On(i)' = On(i) /\ (Short(i)' <=> Short(i))
  BY <1>0, <1>5 DEF Shown, On, Short
<1>6. CASE Begin
  <2>1. pc' \in {"look", "spawn", "done"} /\ since' = 0 /\ shown' = shown
    BY <1>2, <1>6 DEF Begin, End
  <2>2. \A i \in Shown : ~(shown[i].at < 0 - (Pause + MaxRead))
    BY <1>3, <1>4
  <2> QED
    BY <1>0, <1>5, <2>1, <2>2 DEF NoneIsMissed, JudgedUpTo
<1>7. CASE Capture
  <2>1. /\ pc = "look" /\ pc' = "return" /\ got' = Read(screen)
        /\ UNCHANGED <<kind, base, seen, polled, shown, since, now, deaf>>
    BY <1>7 DEF Capture
  <2>2. ASSUME NEW i \in Shown, shown[i].at < since, ~Short(i), ~Rejected(On(i))
        PROVE  On(i) = screen
    <3>1. ~(shown[i].at < since - (Pause + MaxRead))
      BY <1>1, <1>2, <2>1, <2>2 DEF NoneIsMissed, JudgedUpTo
    <3>2. now <= since + MaxRead
      BY <2>1 DEF InTime
    <3>3. now <= shown[i].at + Period
      BY <1>3, <1>4, <3>1, <3>2
    <3>4. CASE i = Len(shown)
      BY <3>4, ScreenIsShown
    <3>5. CASE i # Len(shown)
      <4>1. i + 1 \in Shown /\ i < Len(shown)
        BY <1>4, <3>5, MomentsAre
      <4>2. shown[i + 1].at <= now /\ shown[i + 1].at \in Nat
        BY <1>2, <1>4, <4>1
      <4>3. shown[i + 1].at - shown[i].at <= Period
        BY <1>3, <1>4, <3>3, <4>2
      <4> QED
        BY <2>2, <4>1, <4>3 DEF Short
    <3> QED
      BY <3>4, <3>5
  <2>3. \A s : Rejected(s)' <=> Rejected(s)
    BY <2>1 DEF Rejected, NotWaitedFor, Appeared
  <2> QED
    BY <1>5, <2>1, <2>2, <2>3 DEF NoneIsMissed, Read
<1>8. CASE CaptureFails
  BY <1>8 DEF CaptureFails, NoneIsMissed, End, NoScreen
<1>9. CASE Return
  <2>1. /\ pc = "return" /\ got.ok /\ pc' \in {"check", "done"}
        /\ UNCHANGED <<kind, shown, since, now, got>>
    BY <1>9 DEF Return, End
  <2>2. CASE Satisfied
    BY <1>9, <2>2 DEF Return, End, NoneIsMissed
  <2>3. CASE ~Satisfied
    <3>1. Rejected(got.on)' /\ \A s : Rejected(s) => Rejected(s)'
      BY <1>2, <1>9, <2>1, <2>3, ReturnRejects
    <3>2. \A i \in Shown : shown[i].at < since /\ ~Short(i) => Rejected(On(i)) \/ On(i) = got.on
      BY <1>1, <1>2, <2>1 DEF NoneIsMissed
    <3>3. \A i \in Shown : shown[i].at < since /\ ~Short(i) => Rejected(On(i))'
      <4> TAKE i \in Shown
      <4> HAVE shown[i].at < since /\ ~Short(i)
      <4>1. CASE Rejected(On(i))
        <5>1. On(i)' = On(i)
          BY <1>5, <2>1
        <5>2. \A s : s = On(i) => Rejected(s)'
          BY <3>1, <4>1
        <5> QED
          BY <2>1, <5>1, <5>2 DEF Rejected, NotWaitedFor, Appeared
      <4>2. CASE On(i) = got.on
        <5>1. On(i)' = On(i) /\ got' = got
          BY <1>5, <2>1
        <5> QED
          BY <3>1, <4>2, <5>1 DEF Rejected, NotWaitedFor, Appeared
      <4> QED
        BY <3>2, <4>1, <4>2
    <3>4. JudgedUpTo(since)'
      BY <1>5, <2>1, <3>3 DEF JudgedUpTo
    <3> QED
      BY <2>1, <3>4 DEF NoneIsMissed
  <2> QED
    BY <2>2, <2>3
<1>10. ASSUME UNCHANGED <<kind, base, seen, polled, shown>>,
              NEW t \in Int, NEW u \in Int, u <= t,
              \A i \in Shown : shown[i].at < t /\ ~Short(i) => Rejected(On(i))
       PROVE  \A i \in Shown' : shown'[i].at < u /\ ~Short(i)' => Rejected(On(i))'
  <2>1. \A s : Rejected(s)' <=> Rejected(s)
    BY <1>10 DEF Rejected, NotWaitedFor, Appeared
  <2>2. \A i \in Shown : On(i)' = On(i) /\ (Rejected(On(i))' <=> Rejected(On(i)))
    BY <1>10, <2>1 DEF On, Rejected, NotWaitedFor, Appeared
  <2> QED
    BY <1>4, <1>5, <1>10, <2>2
<1>11. CASE Check
  <2>1. /\ pc = "check" /\ UNCHANGED <<kind, base, seen, polled, shown>>
        /\ pc' = "done" \/ (pc' = "sleep" /\ since' = now)
    BY <1>11 DEF Check, End
  <2>2. JudgedUpTo(since)
    BY <1>1, <1>2, <2>1 DEF NoneIsMissed
  <2>3. now - MaxRead <= since /\ now - MaxRead \in Int /\ since \in Int
    BY <1>3, <2>1 DEF InTime
  <2>4. \A i \in Shown' : shown'[i].at < now - MaxRead /\ ~Short(i)' => Rejected(On(i))'
    BY <1>10, <2>1, <2>2, <2>3 DEF JudgedUpTo
  <2> QED
    BY <2>1, <2>4 DEF NoneIsMissed, JudgedUpTo
<1>12. CASE Wake
  <2>1. /\ pc = "sleep" /\ UNCHANGED <<kind, base, seen, polled, shown>>
        /\ pc' = "look" /\ since' = now
    BY <1>12 DEF Wake
  <2>2. JudgedUpTo(since - MaxRead)
    BY <1>1, <1>2, <2>1 DEF NoneIsMissed
  <2>3. /\ now - (Pause + MaxRead) <= since - MaxRead
        /\ now - (Pause + MaxRead) \in Int /\ since - MaxRead \in Int
    BY <1>3, <2>1 DEF InTime
  <2>4. \A i \in Shown' : shown'[i].at < now - (Pause + MaxRead) /\ ~Short(i)' => Rejected(On(i))'
    BY <1>10, <2>1, <2>2, <2>3 DEF JudgedUpTo
  <2> QED
    BY <1>0, <2>1, <2>4 DEF NoneIsMissed, JudgedUpTo
<1>13. CASE Listen \/ Event \/ WorkerTimer \/ WorkerKilled \/ WorkerFails
  BY <1>13 DEF Listen, Event, WorkerTimer, WorkerKilled, WorkerFails, End, NoneIsMissed
<1>14. CASE Tick \/ UNCHANGED vars
  <2>1. UNCHANGED <<kind, base, seen, polled, shown, since, pc, got, deaf>>
    BY <1>14 DEF Tick, vars
  <2>2. \A s : Rejected(s)' <=> Rejected(s)
    BY <2>1 DEF Rejected, NotWaitedFor, Appeared
  <2>3. \A i \in Shown : On(i)' = On(i) /\ (Rejected(On(i))' <=> Rejected(On(i)))
    BY <2>1 DEF On, Rejected, NotWaitedFor, Appeared
  <2> QED
    BY <1>0, <1>2, <1>5, <2>1, <2>3 DEF NoneIsMissed, JudgedUpTo
<1>15. ASSUME NEW s \in Screens, Change(s) PROVE NoneIsMissed'
  <2>1. UNCHANGED <<kind, base, seen, polled, now, since, pc, got, deaf>>
    BY <1>15 DEF Change
  <2>2. /\ Len(shown') = Len(shown) + 1 /\ shown'[Len(shown) + 1].at = now
        /\ \A i \in Shown : shown'[i] = shown[i]
        /\ Shown' = Shown \cup {Len(shown) + 1}
    BY <1>15, ChangeAdds
  <2>3. ASSUME NEW i \in Shown', NEW t \in Int, t <= since, shown'[i].at < t, ~Short(i)'
        PROVE  /\ i \in Shown /\ shown[i].at < t /\ ~Short(i)
               /\ On(i)' = On(i) /\ (Rejected(On(i))' <=> Rejected(On(i)))
    <3>1. since <= now
      BY DEF InTime
    <3>2. i # Len(shown) + 1
      BY <1>3, <2>2, <2>3, <3>1
    <3>3. i \in Shown /\ shown'[i] = shown[i]
      BY <2>2, <2>3, <3>2
    <3>4. Short(i) => Short(i)'
      <4> SUFFICES ASSUME Short(i) PROVE Short(i)'
        OBVIOUS
      <4>1. i < Len(shown) /\ shown[i + 1].at - shown[i].at <= Period
        BY DEF Short
      <4>2. i + 1 \in Shown /\ Len(shown) \in Nat /\ i \in Nat
        BY <3>3, <4>1, MomentsAre
      <4>3. shown'[i + 1] = shown[i + 1] /\ i < Len(shown')
        BY <2>2, <4>1, <4>2
      <4> QED
        BY <1>0, <3>3, <4>1, <4>3 DEF Short
    <3>5. On(i)' = On(i)
      BY <3>3 DEF On
    <3>6. Rejected(On(i))' <=> Rejected(On(i))
      BY <2>1, <3>5 DEF Rejected, NotWaitedFor, Appeared
    <3> QED
      BY <2>3, <3>3, <3>4, <3>5, <3>6
  <2>4. /\ since - (Pause + MaxRead) \in Int /\ since - (Pause + MaxRead) <= since
        /\ since - MaxRead \in Int /\ since - MaxRead <= since /\ since \in Int /\ since <= since
    BY <1>3
  <2>5. pc = "look" => JudgedUpTo(since - (Pause + MaxRead))'
    BY <1>0, <1>1, <1>2, <2>1, <2>3, <2>4 DEF NoneIsMissed, JudgedUpTo
  <2>6. pc = "check" => JudgedUpTo(since)'
    BY <1>1, <1>2, <2>1, <2>3, <2>4 DEF NoneIsMissed, JudgedUpTo
  <2>7. pc = "sleep" => JudgedUpTo(since - MaxRead)'
    BY <1>1, <1>2, <2>1, <2>3, <2>4 DEF NoneIsMissed, JudgedUpTo
  <2>8. pc = "return" /\ got.ok =>
          \A i \in Shown' : shown'[i].at < since /\ ~Short(i)' =>
             Rejected(On(i))' \/ On(i)' = got.on
    BY <1>1, <1>2, <2>1, <2>3, <2>4 DEF NoneIsMissed
  <2> QED
    BY <2>1, <2>5, <2>6, <2>7, <2>8 DEF NoneIsMissed
<1> QED
  BY <1>6, <1>7, <1>8, <1>9, <1>11, <1>12, <1>13, <1>14, <1>15 DEF Next, Step

-----------------------------------------------------------------------------
(* wait-stable.                                                            *)

\* The clock is never far from the moment the newest screen appeared.
LEMMA NewestIsNew ==
  ASSUME TypeOK, InTime, WindowIsTrue, TimeoutInvariant, kind = "stable",
         pc \in {"begin", "look", "return", "check", "sleep"}
  PROVE  now - shown[Len(shown)].at <= Patience - MaxRead
<1> DEFINE at == shown[Len(shown)].at
           q == Stride
<1>1. /\ now \in Nat /\ since \in Nat /\ at \in Nat /\ counter \in Nat
      /\ q \in Nat \ {0} /\ MaxRead \in Nat \ {0} /\ Pause \in Nat \ {0} /\ Consecutive \in Nat \ {0}
      /\ q = Pause + MaxRead /\ Pause = PollInterval
      /\ Patience - MaxRead = q + MaxRead + Consecutive * q
      /\ Consecutive * q \in Nat
  <2>1. /\ now \in Nat /\ since \in Nat /\ at \in Nat /\ counter \in Nat
    BY MomentsAre DEF TypeOK
  <2> QED
    BY <2>1, StrideIs DEF Stride
<1>2. counter + 1 <= Consecutive
  <2>1. result = Pending
    BY DEF InTime
  <2> QED
    BY <1>1, <2>1 DEF WindowIsTrue, Pending
<1>3. (counter + 1) * q <= Consecutive * q /\ (counter + 1) * q \in Nat
  BY <1>1, <1>2, StridesAdd
<1>4. NoneLasts /\ (pc = "begin" => now = 0)
  BY DEF TimeoutInvariant, InTime
<1>5. ASSUME NEW d \in Nat, SoonAfter(d) PROVE since <= at + Consecutive * q + d
  <2>1. since <= at + d \/ since <= at + (counter + 1) * q + d
    BY <1>5 DEF SoonAfter, Stride
  <2> HIDE DEF at, q
  <2> QED
    BY <1>1, <1>3, <2>1
<1> HIDE DEF at, q
<1>6. CASE pc = "begin"
  <2>1. now = 0
    BY <1>4, <1>6
  <2> DEFINE r == Consecutive * q
  <2>2. r \in Nat /\ Patience - MaxRead = q + MaxRead + r
    BY <1>1
  <2> HIDE DEF r
  <2>3. now - at <= Patience - MaxRead
    BY <1>1, <2>1, <2>2
  <2> QED
    BY <2>3 DEF at
<1>7. CASE pc = "check"
  <2>1. since <= at + Consecutive * q + 0
    BY <1>4, <1>5, <1>7 DEF NoneLasts
  <2>2. now <= since + MaxRead
    BY <1>7 DEF InTime
  <2> QED
    BY <1>1, <2>1, <2>2 DEF at
<1>8. CASE pc = "sleep"
  <2>1. since <= at + Consecutive * q + MaxRead
    BY <1>1, <1>4, <1>5, <1>8 DEF NoneLasts
  <2>2. now <= since + Pause
    BY <1>1, <1>8 DEF InTime
  <2> QED
    BY <1>1, <2>1, <2>2 DEF at
<1>9. CASE pc \in {"look", "return"}
  <2>1. since <= at \/ SoonAfter(Pause + MaxRead)
    BY <1>4, <1>9 DEF NoneLasts, at
  <2>2. since <= at + Consecutive * q + q
    BY <1>1, <1>5, <2>1
  <2>3. now <= since + MaxRead
    BY <1>9 DEF InTime
  <2> QED
    BY <1>1, <2>2, <2>3 DEF at
<1> QED
  BY <1>6, <1>7, <1>8, <1>9

\* What is waited longer for may begin later.
LEMMA Slack ==
  ASSUME NEW s \in Nat, NEW t \in Nat, NEW a \in Nat, NEW d \in Nat, NEW e \in Nat,
         s <= a + d, t + d <= s + e
  PROVE  t <= a + e
OBVIOUS

LEMMA NoneLastsKept ==
  ASSUME TypeOK, InTime, WindowIsTrue, TimeoutInvariant, [Next]_vars
  PROVE  NoneLasts'
<1> SUFFICES ASSUME kind = "stable" PROVE NoneLasts'
  BY RequestIsFixed DEF NoneLasts
<1> DEFINE n == Len(shown)
           at == shown[n].at
<1>0. kind' = kind /\ backend' = backend /\ Pause' = Pause /\ Patience' = Patience
  <2>1. kind' = kind /\ backend' = backend
    BY RequestIsFixed
  <2> QED
    BY <2>1 DEF Pause, Period, Patience, HasBaseline
<1>1. /\ now \in Nat /\ since \in Nat /\ counter \in Nat /\ at \in Nat /\ at <= now
      /\ Pause \in Nat \ {0} /\ MaxRead \in Nat \ {0} /\ Pause = PollInterval
      /\ Stride = Pause + MaxRead /\ Stride \in Nat
  BY StrideIs, MomentsAre DEF TypeOK, TimeoutInvariant, Stride
<1>2. NoneLasts /\ (pc = "begin" => since = 0)
  BY DEF TimeoutInvariant
<1>3. ASSUME shown' = shown
      PROVE  \A i \in 1 .. Len(shown') - 1 : shown'[i + 1].at - shown'[i].at <= Patience
  BY <1>2, <1>3 DEF NoneLasts
<1>4. ASSUME UNCHANGED <<kind, shown, base, polled, counter>>,
             NEW d \in Nat, NEW e \in Nat, SoonAfter(d), since' \in Nat, since' + d <= since + e
      PROVE  SoonAfter(e)'
  <2> DEFINE c == (counter + 1) * (Pause + MaxRead)
  <2>1. c \in Nat
    <3>1. counter + 1 \in Nat /\ Pause + MaxRead \in Nat
      BY <1>1
    <3> QED
      BY <3>1, StridesAdd
  <2>2. \/ since <= at + d
        \/ polled /\ Equal(base.on, On(n), backend) /\ since <= at + c + d
    BY <1>4 DEF SoonAfter
  <2>3. /\ at \in Nat /\ since \in Nat /\ since' \in Nat /\ since' + d <= since + e
        /\ d \in Nat /\ e \in Nat
    BY <1>1, <1>4
  <2>4. n' = n /\ at' = at /\ c' = c /\ On(n)' = On(n) /\ Equal(base.on, On(n), backend)' = Equal(base.on, On(n), backend)
    BY <1>0, <1>4 DEF On
  <2>5. CASE since <= at + d
    <3> HIDE DEF c, n, at
    <3>1. since' <= at + e
      BY <2>3, <2>5, Slack
    <3> QED
      BY <2>4, <3>1 DEF SoonAfter, n, at
  <2>6. CASE polled /\ Equal(base.on, On(n), backend) /\ since <= at + c + d
    <3> HIDE DEF c, n, at
    <3>1. since' <= at + c + e
      <4>1. at + c \in Nat
        BY <2>1, <2>3
      <4> QED
        BY <2>3, <2>6, <4>1, Slack
    <3>2. polled' /\ base' = base /\ counter' = counter
      BY <1>4, <2>6
    <3> QED
      BY <1>0, <1>4, <2>4, <2>6, <3>1, <3>2 DEF SoonAfter, On, n, at, c
  <2> QED
    BY <2>2, <2>5, <2>6
<1>5. CASE Begin
  <2>1. pc' \in {"look", "spawn", "done"} /\ since' = 0 /\ shown' = shown
    BY <1>2, <1>5 DEF Begin, End
  <2> QED
    BY <1>0, <1>1, <1>3, <2>1 DEF NoneLasts, SoonAfter
<1>6. CASE Capture
  <2>1. /\ pc = "look" /\ pc' = "return" /\ got'.on = screen
        /\ UNCHANGED <<kind, base, counter, polled, shown, since>>
    BY <1>6 DEF Capture, Read
  <2>2. screen = On(n)
    BY ScreenIsShown
  <2>3. SoonAfter(Pause + MaxRead)'
    <3>0. PICK e \in Nat : e = Pause + MaxRead
      BY <1>1
    <3>1. SoonAfter(e) /\ since' \in Nat /\ since' + e <= since + e
      BY <1>1, <1>2, <2>1, <3>0 DEF NoneLasts
    <3>2. SoonAfter(e)'
      BY <1>4, <2>1, <3>1
    <3> QED
      BY <1>0, <3>0, <3>2 DEF SoonAfter
  <2> QED
    BY <1>0, <1>3, <2>1, <2>2, <2>3 DEF NoneLasts, On
<1>7. CASE CaptureFails
  BY <1>0, <1>3, <1>7 DEF CaptureFails, End, NoneLasts
<1>8. CASE Return
  <2>1. /\ pc = "return" /\ polled' = TRUE /\ base' = NextBase /\ counter' = NextCounter
        /\ pc' \in {"check", "done"} /\ UNCHANGED <<kind, shown, since>>
    BY <1>8 DEF Return, End, HasBaseline
  <2>2. \/ since <= at
        \/ got.on = On(n) /\ SoonAfter(Pause + MaxRead)
    BY <1>2, <2>1 DEF NoneLasts
  <2>3. CASE since <= at
    <3>1. SoonAfter(0)'
      BY <1>1, <2>1, <2>3 DEF SoonAfter
    <3> QED
      BY <1>0, <1>3, <2>1, <3>1 DEF NoneLasts
  <2>4. CASE got.on = On(n) /\ SoonAfter(Pause + MaxRead) /\ polled /\ Equal(base.on, got.on, backend)
    <3>1. base' = base /\ counter' = counter + 1
      BY <2>1, <2>4 DEF NextBase, NextCounter
    <3>2. /\ (counter + 1) * Stride \in Nat /\ (counter + 1) * Stride >= Stride
          /\ (counter' + 1) * Stride = (counter + 1) * Stride + Stride
      <4>1. counter + 1 \in Nat /\ 1 <= counter + 1 /\ 1 * Stride = Stride
        BY <1>1
      <4> QED
        BY <1>1, <3>1, <4>1, StridesAdd
    <3>3. since <= at + Stride \/ since <= at + (counter + 1) * Stride + Stride
      BY <1>1, <2>4 DEF SoonAfter
    <3>4. since <= at + (counter' + 1) * Stride + 0
      <4> HIDE DEF at, n
      <4> QED
        BY <1>1, <3>2, <3>3
    <3>5. Equal(base.on, On(n), backend)
      BY <2>4
    <3>6. SoonAfter(0)'
      BY <1>0, <1>1, <2>1, <3>1, <3>4, <3>5 DEF SoonAfter, On
    <3> QED
      BY <1>0, <1>3, <2>1, <3>6 DEF NoneLasts
  <2>5. CASE got.on = On(n) /\ SoonAfter(Pause + MaxRead) /\ ~(polled /\ Equal(base.on, got.on, backend))
    <3>1. base' = got /\ counter' = 0
      BY <2>1, <2>5 DEF NextBase, NextCounter
    <3>2. since <= at + Stride
      BY <1>1, <2>5 DEF SoonAfter
    <3>3. since <= at + (counter' + 1) * (Pause + MaxRead) + 0
      BY <1>1, <3>1, <3>2
    <3>4. Equal(base'.on, On(n), backend)
      <4>1. On(n) \in Screens \cup {{}} /\ base'.on = On(n)
        BY <2>5, <3>1, ScreenIsShown DEF Shown
      <4> QED
        BY <4>1, EqualToItself
    <3>5. SoonAfter(0)'
      BY <1>0, <2>1, <3>3, <3>4 DEF SoonAfter, On
    <3> QED
      BY <1>0, <1>3, <2>1, <3>5 DEF NoneLasts
  <2> QED
    BY <2>2, <2>3, <2>4, <2>5
<1>9. CASE Check
  <2>1. /\ pc = "check" /\ UNCHANGED <<kind, base, counter, polled, shown>>
        /\ pc' = "done" \/ (pc' = "sleep" /\ since' = now)
    BY <1>9 DEF Check, End
  <2>2. pc' = "sleep" => SoonAfter(MaxRead)'
    <3> SUFFICES ASSUME pc' = "sleep" PROVE SoonAfter(MaxRead)'
      OBVIOUS
    <3> DEFINE d == 0
               e == MaxRead
    <3>1. d \in Nat /\ e \in Nat /\ SoonAfter(d) /\ since' \in Nat /\ since' + d <= since + e
      BY <1>1, <1>2, <2>1 DEF InTime, NoneLasts
    <3> HIDE DEF d, e
    <3>2. SoonAfter(e)'
      BY <1>4, <2>1, <3>1
    <3> QED
      BY <3>2 DEF e
  <2> QED
    BY <1>0, <1>3, <2>1, <2>2 DEF NoneLasts
<1>10. CASE Wake
  <2>1. /\ pc = "sleep" /\ UNCHANGED <<kind, base, counter, polled, shown>>
        /\ pc' = "look" /\ since' = now
    BY <1>10 DEF Wake
  <2>2. SoonAfter(MaxRead) /\ now + MaxRead <= since + (Pause + MaxRead)
    BY <1>1, <1>2, <2>1 DEF InTime, NoneLasts
  <2>3. SoonAfter(Pause + MaxRead)'
    <3>0. PICK e \in Nat : e = Pause + MaxRead
      BY <1>1
    <3> DEFINE d == MaxRead
    <3>1. d \in Nat /\ SoonAfter(d) /\ since' \in Nat /\ since' + d <= since + e
      BY <1>1, <2>1, <2>2, <3>0
    <3> HIDE DEF d
    <3>2. SoonAfter(e)'
      BY <1>4, <2>1, <3>1
    <3> QED
      BY <1>0, <3>0, <3>2 DEF SoonAfter
  <2> QED
    BY <1>0, <1>3, <2>1, <2>3 DEF NoneLasts
<1>11. CASE Listen \/ Event \/ WorkerTimer \/ WorkerKilled \/ WorkerFails
  BY <1>0, <1>3, <1>11
  DEF Listen, Event, WorkerTimer, WorkerKilled, WorkerFails, End, NoneLasts
<1>12. CASE Tick \/ UNCHANGED vars
  BY <1>0, <1>2, <1>12 DEF Tick, vars, NoneLasts, SoonAfter, On
<1>13. ASSUME NEW s \in Screens, Change(s) PROVE NoneLasts'
  <2>1. /\ UNCHANGED <<kind, base, counter, polled, now, since, pc>> /\ pc # "done"
    BY <1>13 DEF Change
  <2>2. /\ Len(shown') = n + 1 /\ shown'[n + 1].at = now
        /\ \A i \in Shown : shown'[i] = shown[i]
    BY <1>13, ChangeAdds
  <2>3. pc \in {"begin", "look", "return", "check", "sleep"}
    BY <2>1 DEF TypeOK, InTime
  <2>4. now - at <= Patience
    <3>1. now - at <= Patience - MaxRead
      BY <2>3, NewestIsNew
    <3>2. Patience \in Nat
      BY StrideIs
    <3> HIDE DEF at, n
    <3> QED
      BY <1>1, <3>1, <3>2
  <2>5. ASSUME NEW i \in 1 .. Len(shown') - 1 PROVE shown'[i + 1].at - shown'[i].at <= Patience
    <3>1. i \in Shown /\ shown'[i] = shown[i] /\ n \in Nat /\ Shown = 1 .. n
      BY <2>2, <2>5, MomentsAre
    <3>2. CASE i = n
      BY <2>2, <2>4, <3>1, <3>2
    <3>3. CASE i # n
      <4>1. i + 1 \in Shown /\ i \in 1 .. n - 1
        BY <3>1, <3>3
      <4>2. shown'[i + 1] = shown[i + 1]
        BY <2>2, <4>1
      <4> QED
        BY <1>2, <3>1, <4>1, <4>2 DEF NoneLasts
    <3> QED
      BY <3>2, <3>3
  <2>6. since' <= shown'[Len(shown')].at /\ since' \in Nat /\ shown'[Len(shown')].at \in Nat
    BY <1>1, <2>1, <2>2 DEF InTime
  <2>7. \A d \in Nat : since' <= shown'[Len(shown')].at + d
    BY <2>6
  <2>8. 0 \in Nat /\ MaxRead \in Nat /\ Pause + MaxRead \in Nat
    BY <1>1
  <2>9. SoonAfter(0)' /\ SoonAfter(MaxRead)' /\ SoonAfter(Pause + MaxRead)'
    BY <1>0, <2>7, <2>8 DEF SoonAfter
  <2> QED
    BY <1>0, <2>5, <2>6, <2>9 DEF NoneLasts
<1> QED
  BY <1>5, <1>6, <1>7, <1>8, <1>9, <1>10, <1>11, <1>12, <1>13 DEF Next, Step

-----------------------------------------------------------------------------
\* A call that gives up does so at a check after the deadline.
LEMMA TimeoutIsKept ==
  ASSUME TypeOK, InTime, WindowIsTrue, TimeoutInvariant, [Next]_vars
  PROVE  TimeoutIsTrue'
<1>0. kind' = kind /\ Polls' = Polls /\ Pause' = Pause
  <2>1. kind' = kind /\ Polls' = Polls
    BY RequestIsFixed
  <2> QED
    BY <2>1 DEF Pause, HasBaseline
<1>1. CASE pc = "done"
  <2>1. UNCHANGED vars
    BY <1>1, DoneIsDone
  <2> QED
    BY <2>1 DEF vars, TimeoutInvariant, TimeoutIsTrue, Shown, Lasted, Until, On, NotWaitedFor,
          Appeared, Patience, Period, Pause, HasBaseline, Polls
<1>2. CASE pc # "done" /\ ~Check
  <2>1. result = Pending /\ (WorkerTimer => ~Polls)
    BY <1>2 DEF InTime, WorkerTimer
  <2>2. \/ result' = result
        \/ result' \in {[status |-> st] : st \in {"met", "unsupported", "error"}}
        \/ WorkerTimer
    BY <1>2 DEF Next, Step, Begin, Capture, CaptureFails, Return, Wake, Listen, Event,
           WorkerKilled, WorkerFails, Tick, Change, vars, End
  <2>3. result'.status = "timeout" => WorkerTimer
    BY <2>1, <2>2 DEF Pending
  <2> QED
    BY <1>0, <2>1, <2>3 DEF TimeoutIsTrue
<1>3. CASE pc # "done" /\ Check
  <2> SUFFICES ASSUME result'.status = "timeout", ~deaf', NEW i \in Shown
               PROVE  IF kind = "stable" THEN ~Lasted(i, Patience)
                      ELSE Lasted(i, Period) => NotWaitedFor(On(i))
    BY <1>0, <1>3 DEF Check, TimeoutIsTrue, Shown, Lasted, Until, On, NotWaitedFor, Appeared,
           Patience, Period, Pause, HasBaseline
  <2>1. /\ pc = "check" /\ ~deaf /\ Expired /\ result = Pending
        /\ kind = "transient" => ~seen
    BY <1>3 DEF Check, End, Late, InTime, Pending
  <2>2. now >= Timeout /\ now <= since + MaxRead
    BY <2>1 DEF Expired, InTime
  <2>3. /\ now \in Nat /\ since \in Nat /\ Timeout \in Nat /\ MaxRead \in Nat
        /\ shown[i].at \in Nat /\ i \in Nat \ {0} /\ i <= Len(shown) /\ Len(shown) \in Nat
        /\ Period \in Nat /\ Patience \in Nat
    <3>1. now \in Nat /\ since \in Nat
      BY DEF TypeOK
    <3>2. Timeout \in Nat /\ MaxRead \in Nat
      BY TicksAssumption
    <3>3. Period \in Nat /\ Patience \in Nat
      BY StrideIs
    <3>4. shown[i].at \in Nat /\ Len(shown) \in Nat /\ i \in 1 .. Len(shown)
      BY MomentsAre
    <3> QED
      BY <3>1, <3>2, <3>3, <3>4
  <2>4. Timeout - MaxRead <= since
    BY <2>2, <2>3
  <2>5. Until(i) \in Nat
    BY <2>3, MomentsAre DEF Until, Shown
  <2>6. CASE kind = "stable"
    <3>1. Until(i) - shown[i].at <= Patience
      <4>1. CASE i = Len(shown)
        BY <2>1, <2>3, <2>6, <4>1, NewestIsNew DEF Until
      <4>2. CASE i # Len(shown)
        <5>1. i \in 1 .. Len(shown) - 1
          BY <2>3, <4>2
        <5> QED
          BY <2>6, <4>2, <5>1 DEF Until, TimeoutInvariant, NoneLasts
      <4> QED
        BY <4>1, <4>2
    <3> QED
      BY <2>3, <2>5, <2>6, <3>1 DEF Lasted
  <2>7. CASE kind # "stable"
    <3> SUFFICES ASSUME Lasted(i, Period) PROVE NotWaitedFor(On(i))
      BY <2>7
    <3>1. Until(i) - shown[i].at > Period /\ shown[i].at < Timeout - MaxRead
      BY <2>3, <2>5 DEF Lasted
    <3>2. shown[i].at < since
      BY <2>3, <2>4, <3>1
    <3>3. ~Short(i)
      <4> SUFFICES ASSUME Short(i) PROVE FALSE
        OBVIOUS
      <4>1. i < Len(shown) /\ shown[i + 1].at - shown[i].at <= Period
        BY DEF Short
      <4>2. Until(i) = shown[i + 1].at
        BY <2>3, <4>1 DEF Until
      <4> QED
        BY <2>3, <2>5, <3>1, <4>1, <4>2
    <3>4. JudgedUpTo(since)
      BY <2>1, <2>7 DEF TimeoutInvariant, NoneIsMissed
    <3> QED
      BY <2>1, <3>2, <3>3, <3>4 DEF JudgedUpTo, Rejected
  <2> QED
    BY <2>6, <2>7
<1> QED
  BY <1>1, <1>2, <1>3

\* The invariant behind it is inductive.
LEMMA TimeoutInvariantKept ==
  ASSUME TypeOK, InTime, SeenIsTrue, WindowIsTrue, TimeoutInvariant, [Next]_vars
  PROVE  TimeoutInvariant'
<1>1. /\ \A i \in Shown' : shown'[i].at <= now'
      /\ pc' \in {"look", "return", "check", "sleep"} => kind' # "focus-change"
      /\ pc' = "begin" => ~polled' /\ since' = 0
  BY MomentsKept
<1>2. NoneIsMissed' /\ NoneLasts' /\ TimeoutIsTrue'
  BY NoneIsMissedKept, NoneLastsKept, TimeoutIsKept
<1> QED
  BY <1>1, <1>2 DEF TimeoutInvariant

LEMMA TimeoutAtInit == Init => TimeoutInvariant
<1> SUFFICES ASSUME Init PROVE TimeoutInvariant
  OBVIOUS
<1>1. PICK s \in Screens : shown = <<[at |-> 0, on |-> s]>>
  BY DEF Init
<1>2. Len(shown) = 1 /\ shown[1].at = 0 /\ Shown = {1}
  BY <1>1 DEF Shown
<1>3. \A i \in Shown : shown[i].at <= now
  BY <1>2 DEF Init
<1>4. NoneLasts
  BY <1>2 DEF Init, NoneLasts
<1> QED
  BY <1>3, <1>4 DEF Init, TimeoutInvariant, NoneIsMissed, TimeoutIsTrue, Pending

\* A wait that polls gives up only if nothing that lasted was what it waits for: each
\* screen that was shown for longer than from one read to the next was read and judged,
\* and wait-stable would have succeeded on one that stayed for its equal reads.
THEOREM NothingLastingIsMissed == Spec => []TimeoutIsTrue
<1> DEFINE Inv == TypeOK /\ InTime /\ DeadlineKept /\ SeenIsTrue /\ WindowIsTrue /\ TimeoutInvariant
<1>1. Init => Inv
  BY TypeAtInit, TimeAtInit, SeenAtInit, WindowAtInit, TimeoutAtInit
<1>2. Inv /\ [Next]_vars => Inv'
  BY TypeIsKept, TimeIsKept, SeenIsKept, WindowIsKept, TimeoutInvariantKept
<1>3. Inv => TimeoutIsTrue
  BY DEF TimeoutInvariant
<1> QED
  BY <1>1, <1>2, <1>3, PTL DEF Spec
=============================================================================
