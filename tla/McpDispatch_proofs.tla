------------------------- MODULE McpDispatch_proofs -------------------------
(***************************************************************************)
(* The dispatch of the MCP server for every number of calls, sessions and  *)
(* worker threads, and the sessions that its calls use, stop and start.    *)
(***************************************************************************)
EXTENDS ServedSessions, SequenceTheorems, FiniteSetTheorems, WellFoundedInduction, TLAPS

(***************************************************************************)
(* Queues.                                                                 *)
(***************************************************************************)
\* Where the j-th element of a queue was before the i-th was taken out.
Skip(i, j) == IF j < i THEN j ELSE j + 1

\* r is q without its i-th element.
Without(q, i, r) ==
  /\ \A j \in DOMAIN r : /\ Skip(i, j) \in DOMAIN q /\ Skip(i, j) # i
                         /\ r[j] = q[Skip(i, j)]
  /\ \A m \in DOMAIN q : m = i \/ \E j \in DOMAIN r : Skip(i, j) = m
  /\ \A j, k \in DOMAIN r : j < k <=> Skip(i, j) < Skip(i, k)
  /\ \A j, k \in DOMAIN r : Skip(i, j) = Skip(i, k) => j = k

\* The first is taken: the call that gets a lock or a thread.
LEMMA TailWithout ==
  ASSUME NEW S, NEW q \in Seq(S), q # <<>>
  PROVE  /\ Tail(q) \in Seq(S) /\ Without(q, 1, Tail(q))
         /\ 1 \in DOMAIN q /\ q[1] = Head(q) /\ \A j \in DOMAIN q : 1 <= j
<1>1. Tail(q) \in Seq(S) /\ Len(Tail(q)) = Len(q) - 1
      /\ \A i \in 1 .. Len(Tail(q)) : Tail(q)[i] = q[i + 1]
  BY HeadTailProperties
<1>2. DOMAIN q = 1 .. Len(q) /\ Len(q) \in Nat \ {0}
      /\ DOMAIN Tail(q) = 1 .. Len(Tail(q))
  BY <1>1, LenProperties, EmptySeq
<1>3. 1 \in DOMAIN q /\ q[1] = Head(q)
  BY <1>2
<1>4. \A m \in DOMAIN q : m = 1 \/ \E j \in DOMAIN Tail(q) : Skip(1, j) = m
  <2> SUFFICES ASSUME NEW m \in DOMAIN q, m # 1 PROVE \E j \in DOMAIN Tail(q) : Skip(1, j) = m
    OBVIOUS
  <2>1. m - 1 \in DOMAIN Tail(q) /\ Skip(1, m - 1) = m
    BY <1>1, <1>2 DEF Skip
  <2> QED
    BY <2>1
<1>5. \A j \in DOMAIN Tail(q) : Skip(1, j) = j + 1 /\ j \in Nat
  BY <1>1, <1>2 DEF Skip
<1>6. \A j \in DOMAIN Tail(q) : /\ Skip(1, j) \in DOMAIN q /\ Skip(1, j) # 1
                                /\ Tail(q)[j] = q[Skip(1, j)]
  BY <1>1, <1>2, <1>5
<1>7. \A j, k \in DOMAIN Tail(q) : /\ j < k <=> Skip(1, j) < Skip(1, k)
                                   /\ Skip(1, j) = Skip(1, k) => j = k
  BY <1>5
<1>8. Without(q, 1, Tail(q))
  BY <1>4, <1>6, <1>7 DEF Without
<1> QED
  BY <1>1, <1>2, <1>3, <1>8

\* One is taken out anywhere: the call that was cancelled.
LEMMA RemoveWithout ==
  ASSUME NEW S, NEW q \in Seq(S), NEW i \in DOMAIN q
  PROVE  RemoveAt(q, i) \in Seq(S) /\ Without(q, i, RemoveAt(q, i))
<1> DEFINE a == SubSeq(q, 1, i - 1)
           b == SubSeq(q, i + 1, Len(q))
           r == RemoveAt(q, i)
<1>1. i \in 1 .. Len(q) /\ Len(q) \in Nat /\ DOMAIN q = 1 .. Len(q)
  BY LenProperties
<1>2. a \in Seq(S) /\ Len(a) = i - 1 /\ \A j \in 1 .. i - 1 : a[j] = q[j]
  BY <1>1, SubSeqProperties, ElementOfSeq
<1>3. b \in Seq(S) /\ Len(b) = Len(q) - i /\ \A j \in 1 .. Len(q) - i : b[j] = q[i + j]
  <2>1. i + 1 \in Int /\ Len(q) \in Int /\ \A j \in i + 1 .. Len(q) : q[j] \in S
    BY <1>1, ElementOfSeq
  <2>2. /\ b \in Seq(S) /\ Len(b) = IF i + 1 <= Len(q) THEN Len(q) - (i + 1) + 1 ELSE 0
        /\ \A j \in 1 .. Len(q) - (i + 1) + 1 : b[j] = q[i + 1 + j - 1]
    BY <2>1, SubSeqProperties
  <2>3. Len(q) - (i + 1) + 1 = Len(q) - i /\ \A j \in 1 .. Len(q) - i : i + 1 + j - 1 = i + j
    BY <1>1
  <2> QED
    BY <1>1, <2>2, <2>3
<1>4. /\ r \in Seq(S) /\ Len(r) = Len(q) - 1
      /\ \A j \in 1 .. Len(r) : r[j] = IF j < i THEN a[j] ELSE b[j - (i - 1)]
  <2>1. r = a \o b
    BY DEF RemoveAt
  <2> HIDE DEF a, b, r
  <2>2. /\ r \in Seq(S) /\ Len(r) = Len(a) + Len(b)
        /\ \A j \in 1 .. Len(a) + Len(b) : r[j] = IF j <= Len(a) THEN a[j] ELSE b[j - Len(a)]
    BY <1>2, <1>3, <2>1, ConcatProperties
  <2> QED
    BY <1>1, <1>2, <1>3, <2>2
<1>5. DOMAIN r = 1 .. Len(r)
  BY <1>4, LenProperties
<1> HIDE DEF a, b, r
<1>6. ASSUME NEW j \in DOMAIN r
      PROVE  Skip(i, j) \in DOMAIN q /\ Skip(i, j) # i /\ r[j] = q[Skip(i, j)]
  <2>1. CASE j < i
    BY <1>1, <1>2, <1>4, <1>5, <2>1 DEF Skip
  <2>2. CASE ~ (j < i)
    <3>1. j - (i - 1) \in 1 .. Len(q) - i /\ i + (j - (i - 1)) = j + 1
      BY <1>1, <1>4, <1>5, <2>2
    <3>2. r[j] = q[i + (j - (i - 1))]
      BY <1>3, <1>4, <1>5, <2>2, <3>1
    <3> QED
      BY <1>1, <1>4, <1>5, <2>2, <3>1, <3>2 DEF Skip
  <2> QED
    BY <2>1, <2>2
<1>7. \A j, k \in DOMAIN r : /\ j < k <=> Skip(i, j) < Skip(i, k)
                             /\ Skip(i, j) = Skip(i, k) => j = k
  BY <1>1, <1>4, <1>5 DEF Skip
<1>8. \A m \in DOMAIN q : m = i \/ \E j \in DOMAIN r : Skip(i, j) = m
  <2> SUFFICES ASSUME NEW m \in DOMAIN q, m # i PROVE \E j \in DOMAIN r : Skip(i, j) = m
    OBVIOUS
  <2>1. CASE m < i
    <3>1. m \in DOMAIN r /\ Skip(i, m) = m
      BY <1>1, <1>4, <1>5, <2>1 DEF Skip
    <3> QED
      BY <3>1
  <2>2. CASE m > i
    <3>1. m - 1 \in DOMAIN r /\ Skip(i, m - 1) = m
      BY <1>1, <1>4, <1>5, <2>2 DEF Skip
    <3> QED
      BY <3>1
  <2> QED
    BY <1>1, <2>1, <2>2
<1> QED
  BY <1>4, <1>6, <1>7, <1>8 DEF r, Without

\* Of a queue without repetitions, one without repetitions is left, and the
\* element that was taken is no longer in it, the others are.
LEMMA WithoutRepeats ==
  ASSUME NEW q, NEW r, NEW i \in DOMAIN q, Without(q, i, r),
         \A j, k \in DOMAIN q : q[j] = q[k] => j = k
  PROVE  /\ \A j, k \in DOMAIN r : r[j] = r[k] => j = k
         /\ \A j \in DOMAIN r : r[j] # q[i] /\ \E k \in DOMAIN q : r[j] = q[k]
         /\ \A k \in DOMAIN q : q[k] # q[i] => \E j \in DOMAIN r : r[j] = q[k]
  BY DEF Without

\* One is appended to a queue in which it was not.
LEMMA AppendOnce ==
  ASSUME NEW S, NEW q \in Seq(S), NEW m \in S
  PROVE  /\ Append(q, m) \in Seq(S) /\ Len(q) \in Nat /\ Len(Append(q, m)) = Len(q) + 1
         /\ \A i \in DOMAIN q : i \in DOMAIN Append(q, m) /\ Append(q, m)[i] = q[i] /\ i <= Len(q)
                               /\ i \in Nat
         /\ Len(q) + 1 \in DOMAIN Append(q, m) /\ Append(q, m)[Len(q) + 1] = m
         /\ \A i \in DOMAIN Append(q, m) : i \in DOMAIN q \/ i = Len(q) + 1
<1>1. /\ Append(q, m) \in Seq(S) /\ Len(Append(q, m)) = Len(q) + 1
      /\ \A i \in 1 .. Len(q) : Append(q, m)[i] = q[i]
      /\ Append(q, m)[Len(q) + 1] = m
  BY AppendProperties
<1>2. DOMAIN q = 1 .. Len(q) /\ Len(q) \in Nat /\ DOMAIN Append(q, m) = 1 .. Len(q) + 1
  BY <1>1, LenProperties
<1> QED
  BY <1>1, <1>2

LEMMA TailOfQueue ==
  ASSUME NEW S, NEW q \in Seq(S), q # <<>>,
         \A i, j \in DOMAIN q : q[i] = q[j] => i = j
  PROVE  /\ \A i, j \in DOMAIN Tail(q) : Tail(q)[i] = Tail(q)[j] => i = j
         /\ \A i \in DOMAIN Tail(q) : Tail(q)[i] # Head(q)
         /\ \A i \in DOMAIN Tail(q) : \E j \in DOMAIN q : q[j] = Tail(q)[i]
<1>1. 1 \in DOMAIN q /\ Head(q) = q[1] /\ Without(q, 1, Tail(q))
  BY TailWithout
<1>2. /\ \A j, k \in DOMAIN Tail(q) : Tail(q)[j] = Tail(q)[k] => j = k
      /\ \A j \in DOMAIN Tail(q) : Tail(q)[j] # q[1] /\ \E k \in DOMAIN q : Tail(q)[j] = q[k]
  <2> DEFINE r == Tail(q)
  <2>1. Without(q, 1, r) /\ 1 \in DOMAIN q
    BY <1>1
  <2> HIDE DEF r
  <2>2. /\ \A j, k \in DOMAIN r : r[j] = r[k] => j = k
        /\ \A j \in DOMAIN r : r[j] # q[1] /\ \E k \in DOMAIN q : r[j] = q[k]
    BY <2>1, WithoutRepeats
  <2> QED
    BY <2>2 DEF r
<1> QED
  BY <1>1, <1>2, Zenon

-----------------------------------------------------------------------------
(***************************************************************************)
(* Type correctness.                                                       *)
(***************************************************************************)
LEMMA DispatchInitType == Init => TypeOK
  BY EmptySeq DEF Init, TypeOK, Keys, Works, Replies

LEMMA LogType ==
  ASSUME TypeOK, NEW c \in Calls, NEW k \in Keys, NEW code \in {0, 1}, Log(c, k, code)
  PROVE  log' \in [Keys -> Seq(Records)]
<1>1. [call |-> c, exit |-> code] \in Records
  BY DEF Records
<1>2. log \in [Keys -> Seq(Records)] /\ log[k] \in Seq(Records)
  BY DEF TypeOK
<1>3. Append(log[k], [call |-> c, exit |-> code]) \in Seq(Records)
  BY <1>1, <1>2, AppendProperties
<1> QED
  BY <1>2, <1>3 DEF Log

LEMMA EnterType ==
  ASSUME TypeOK, NEW c \in Calls, NEW s \in Keys, NEW k \in Keys, Enter(c, s, k)
  PROVE  TypeOK'
<1> USE DEF TypeOK, Goto, threads
<1>1. CASE owner[k] = Nobody /\ waiters[k] = <<>>
  <2>1. Append(backlog, c) \in Seq(Calls)
    BY AppendProperties
  <2> QED
    BY <1>1, <2>1 DEF Enter, Submit, Works
<1>2. CASE ~ (owner[k] = Nobody /\ waiters[k] = <<>>)
  <2>1. Append(waiters[k], c) \in Seq(Calls)
    BY AppendProperties
  <2> QED
    BY <1>2, <2>1 DEF Enter
<1> QED
  BY <1>1, <1>2

LEMMA DispatchNextType == TypeOK /\ [Next]_vars => TypeOK'
<1> SUFFICES ASSUME TypeOK, [Next]_vars PROVE TypeOK'
  OBVIOUS
<1> USE DEF TypeOK, Works, Replies, Goto, Reply, locks, threads, handlers
<1>1. ASSUME NEW c \in Calls, Arrive(c) PROVE TypeOK'
  <2>1. CASE ArriveBound(c)
    BY <2>1, EnterType DEF ArriveBound, LockKey, Keys
  <2>2. CASE ArriveGlobal(c)
    BY <2>2, EnterType DEF ArriveGlobal, Keys
  <2>3. CASE ResolveFails(c)
    <3>1. log' \in [Keys -> Seq(Records)]
      BY <2>3, LogType DEF ResolveFails, Keys
    <3> QED
      BY <2>3, <3>1 DEF ResolveFails
  <2>4. CASE Refuse(c)
    BY <2>4 DEF Refuse
  <2> QED
    BY <1>1, <2>1, <2>2, <2>3, <2>4 DEF Arrive
<1>2. ASSUME NEW c \in Calls, Acquire(c) PROVE TypeOK'
  <2>1. Tail(waiters[key[c]]) \in Seq(Calls)
    BY <1>2, HeadTailProperties DEF Acquire
  <2>2. Append(backlog, c) \in Seq(Calls)
    BY AppendProperties
  <2> QED
    BY <1>2, <2>1, <2>2 DEF Acquire, Submit
<1>3. ASSUME NEW c \in Calls, Finish(c) PROVE TypeOK'
  <2>1. log' \in [Keys -> Seq(Records)]
    BY <1>3, LogType DEF Finish
  <2> QED
    BY <1>3, <2>1 DEF Finish, Release
<1>4. ASSUME NEW c \in Calls, CancelWaiting(c) PROVE TypeOK'
  <2>1. PICK i \in DOMAIN waiters[key[c]] :
             waiters' = [waiters EXCEPT ![key[c]] = RemoveAt(@, i)]
    BY <1>4 DEF CancelWaiting
  <2>2. RemoveAt(waiters[key[c]], i) \in Seq(Calls)
    BY RemoveWithout
  <2> QED
    BY <1>4, <2>1, <2>2 DEF CancelWaiting
<1>5. ASSUME NEW c \in Calls, CancelWorking(c) PROVE TypeOK'
  <2>1. log' \in [Keys -> Seq(Records)]
    BY <1>5, LogType DEF CancelWorking
  <2>2. backlog' \in Seq(Calls)
    BY <1>5, RemoveWithout DEF CancelWorking
  <2> QED
    BY <1>5, <2>1, <2>2 DEF CancelWorking, Release
<1>6. ASSUME NEW c \in Calls, Begin(c) PROVE TypeOK'
  BY <1>6, HeadTailProperties, AppendProperties DEF Begin
<1>7. ASSUME NEW c \in Calls, End(c) PROVE TypeOK'
  BY <1>7 DEF End
<1>8. CASE UNCHANGED vars
  BY <1>8 DEF vars
<1> QED
  BY <1>1, <1>2, <1>3, <1>4, <1>5, <1>6, <1>7, <1>8 DEF Next, Resume, Cancel

(***************************************************************************)
(* Whatever clients cancel and whatever appends fail, the locks, the       *)
(* backlog and the logs keep their types.                                  *)
(***************************************************************************)
THEOREM DispatchTypeCorrect == Spec => []TypeOK
  BY DispatchInitType, DispatchNextType, PTL DEF Spec

-----------------------------------------------------------------------------
(***************************************************************************)
(* The inductive invariant, while nobody cancels.                          *)
(***************************************************************************)
LEMMA DispatchInitInvariant == Init => DispatchInvariant
  BY DispatchInitType, EmptySeq
  DEF Init, DispatchInvariant, CallAt, NoRepeats, InBacklog, HoldsLock

\* Submitting a use case that is not in the backlog puts it there once.
LEMMA SubmitOnce ==
  ASSUME TypeOK, NoRepeats, NEW c \in Calls, ~ InBacklog(c), Submit(c)
  PROVE  NoRepeats' /\ \A d \in Calls : InBacklog(d)' => InBacklog(d) \/ d = c
<1>1. /\ Len(backlog') = Len(backlog) + 1 /\ Len(backlog) \in Nat
      /\ \A i \in 1 .. Len(backlog) : backlog'[i] = backlog[i]
      /\ backlog'[Len(backlog) + 1] = c
      /\ DOMAIN backlog = 1 .. Len(backlog) /\ DOMAIN backlog' = 1 .. Len(backlog')
  BY AppendProperties, LenProperties DEF TypeOK, Submit
<1>2. \A i \in DOMAIN backlog' : i \in DOMAIN backlog \/ i = Len(backlog) + 1
  BY <1>1
<1> QED
  BY <1>1, <1>2 DEF NoRepeats, InBacklog

\* The steps that submit: c has just got the lock k of its session.
LEMMA SubmitKeepsInvariant ==
  ASSUME DispatchInvariant, NEW c \in Calls, NEW k \in Keys, Submit(c),
         work[c] = "none", owner[k] = Nobody, owner' = [owner EXCEPT ![k] = c],
         pc' = [pc EXCEPT ![c] = "working"],
         key'[c] = k, session'[c] = k,
         \A d \in Calls \ {c} : key'[d] = key[d] /\ session'[d] = session[d]
  PROVE  NoRepeats' /\ \A d \in Calls : CallAt(d)'
<1>1. ~ InBacklog(c) /\ TypeOK /\ NoRepeats
  BY DEF DispatchInvariant, CallAt
<1>2. NoRepeats' /\ \A d \in Calls : InBacklog(d)' => InBacklog(d) \/ d = c
  BY <1>1, SubmitOnce
<1>3. CallAt(c)'
  BY <1>1 DEF CallAt, HoldsLock, Submit, TypeOK
<1>4. ASSUME NEW d \in Calls \ {c} PROVE CallAt(d)'
  <2>1. CallAt(d) /\ key[d] \in Keys
    BY <1>1 DEF DispatchInvariant, TypeOK
  <2>2. pc'[d] = pc[d] /\ work'[d] = work[d]
    BY <1>1 DEF TypeOK, Submit
  <2>3. owner[key[d]] = d => owner'[key[d]] = d
    BY <1>1, <2>1, NobodyAssumption DEF TypeOK
  <2> QED
    BY <1>2, <2>1, <2>2, <2>3 DEF CallAt, HoldsLock
<1> QED
  BY <1>2, <1>3, <1>4

LEMMA EnterKeepsInvariant ==
  ASSUME DispatchInvariant, NEW c \in Calls, NEW k \in Keys, pc[c] = "idle", Enter(c, k, k)
  PROVE  NoRepeats' /\ \A d \in Calls : CallAt(d)'
<1> USE DEF Enter, Goto
<1>1. TypeOK /\ work[c] = "none"
  BY DEF DispatchInvariant, CallAt
<1>2. CASE owner[k] = Nobody /\ waiters[k] = <<>>
  BY <1>1, <1>2, SubmitKeepsInvariant DEF TypeOK
<1>3. CASE ~ (owner[k] = Nobody /\ waiters[k] = <<>>)
  <2>1. UNCHANGED <<owner, work, backlog>> /\ pc' = [pc EXCEPT ![c] = "waiting"]
        /\ session' = [session EXCEPT ![c] = k] /\ key' = [key EXCEPT ![c] = k]
    BY <1>3 DEF threads
  <2>2. NoRepeats'
    BY <2>1 DEF NoRepeats, DispatchInvariant
  <2>3. ASSUME NEW d \in Calls PROVE CallAt(d)'
    BY <1>1, <2>1, <2>3 DEF DispatchInvariant, CallAt, HoldsLock, InBacklog, TypeOK
  <2> QED
    BY <2>2, <2>3
<1> QED
  BY <1>2, <1>3

LEMMA DispatchStep ==
  ASSUME "cancel" \notin Faults, DispatchInvariant, [Next]_vars
  PROVE  DispatchInvariant'
<1>0. TypeOK /\ NoRepeats /\ \A d \in Calls : CallAt(d)
  BY DEF DispatchInvariant
<1>1. TypeOK'
  BY <1>0, DispatchNextType
<1>2. ASSUME NEW c \in Calls, Arrive(c) PROVE NoRepeats' /\ \A d \in Calls : CallAt(d)'
  <2>1. CASE ArriveBound(c)
    BY <2>1, EnterKeepsInvariant DEF ArriveBound, LockKey, Keys
  <2>2. CASE ArriveGlobal(c)
    BY <2>2, EnterKeepsInvariant DEF ArriveGlobal, Keys
  <2>3. CASE ResolveFails(c) \/ Refuse(c)
    <3>1. UNCHANGED <<session, key, owner, work, backlog>> /\ pc' = [pc EXCEPT ![c] = "ended"]
          /\ pc[c] = "idle"
      BY <2>3 DEF ResolveFails, Refuse, Goto, locks, threads
    <3>2. NoRepeats'
      BY <1>0, <3>1 DEF NoRepeats
    <3>3. ASSUME NEW d \in Calls PROVE CallAt(d)'
      BY <1>0, <3>1 DEF CallAt, HoldsLock, InBacklog, TypeOK
    <3> QED
      BY <3>2, <3>3
  <2> QED
    BY <1>2, <2>1, <2>2, <2>3 DEF Arrive
<1>3. ASSUME NEW c \in Calls, Acquire(c) PROVE NoRepeats' /\ \A d \in Calls : CallAt(d)'
  <2>1. work[c] = "none" /\ key[c] = session[c] /\ key[c] \in Keys
    BY <1>0, <1>3 DEF Acquire, CallAt, TypeOK
  <2> QED
    BY <1>3, <2>1, SubmitKeepsInvariant DEF Acquire, Goto
<1>4. ASSUME NEW c \in Calls, Finish(c) PROVE NoRepeats' /\ \A d \in Calls : CallAt(d)'
  <2>1. UNCHANGED <<session, key, work, backlog>> /\ pc' = [pc EXCEPT ![c] = "ended"]
        /\ owner' = [owner EXCEPT ![key[c]] = Nobody]
        /\ pc[c] = "working" /\ work[c] \in {"ok", "error"}
    BY <1>4 DEF Finish, Goto, Release, threads
  <2>2. NoRepeats'
    BY <1>0, <2>1 DEF NoRepeats
  <2>3. owner[key[c]] = c
    BY <1>0, <2>1 DEF CallAt
  <2>4. ASSUME NEW d \in Calls PROVE CallAt(d)'
    <3>1. d # c /\ owner[key[d]] = d => owner'[key[d]] = d
      BY <1>0, <2>1, <2>3 DEF TypeOK
    <3> QED
      BY <1>0, <2>1, <3>1 DEF CallAt, HoldsLock, InBacklog, TypeOK
  <2> QED
    BY <2>2, <2>4
<1>5. ASSUME NEW c \in Calls, Begin(c) PROVE NoRepeats' /\ \A d \in Calls : CallAt(d)'
  <2>1. UNCHANGED <<pc, session, key, owner>> /\ backlog' = Tail(backlog)
        /\ work' = [work EXCEPT ![c] = "running"] /\ backlog # <<>> /\ Head(backlog) = c
    BY <1>5 DEF Begin, handlers, locks
  <2>2. NoRepeats' /\ ~ InBacklog(c)' /\ \A d \in Calls : InBacklog(d)' => InBacklog(d)
    <3>1. backlog \in Seq(Calls) /\ \A i, j \in DOMAIN backlog : backlog[i] = backlog[j] => i = j
      BY <1>0 DEF TypeOK, NoRepeats
    <3>2. /\ \A i, j \in DOMAIN Tail(backlog) : Tail(backlog)[i] = Tail(backlog)[j] => i = j
          /\ \A i \in DOMAIN Tail(backlog) : Tail(backlog)[i] # Head(backlog)
          /\ \A i \in DOMAIN Tail(backlog) : \E j \in DOMAIN backlog : backlog[j] = Tail(backlog)[i]
      BY <2>1, <3>1, TailOfQueue, Zenon
    <3> QED
      BY <2>1, <3>2, Zenon DEF NoRepeats, InBacklog
  <2>3. work[c] = "queued"
    <3>1. backlog \in Seq(Calls) /\ DOMAIN backlog = 1 .. Len(backlog) /\ Len(backlog) \in Nat \ {0}
      BY <1>0, <2>1, LenProperties, EmptySeq DEF TypeOK
    <3>2. 1 \in DOMAIN backlog /\ backlog[1] = Head(backlog)
      BY <3>1
    <3> QED
      BY <1>0, <2>1, <3>2 DEF CallAt, InBacklog
  <2>4. ASSUME NEW d \in Calls PROVE CallAt(d)'
    BY <1>0, <2>1, <2>2, <2>3 DEF CallAt, HoldsLock, TypeOK
  <2> QED
    BY <2>2, <2>4
<1>6. ASSUME NEW c \in Calls, End(c) PROVE NoRepeats' /\ \A d \in Calls : CallAt(d)'
  <2>1. UNCHANGED <<pc, session, key, owner, backlog>> /\ work[c] = "running"
        /\ \E result \in {"ok", "error"} : work' = [work EXCEPT ![c] = result]
    BY <1>6 DEF End, handlers, locks
  <2>2. NoRepeats'
    BY <1>0, <2>1 DEF NoRepeats
  <2>3. ASSUME NEW d \in Calls PROVE CallAt(d)'
    BY <1>0, <2>1 DEF CallAt, HoldsLock, InBacklog, TypeOK
  <2> QED
    BY <2>2, <2>3
<1>7. ASSUME UNCHANGED vars PROVE NoRepeats' /\ \A d \in Calls : CallAt(d)'
  <2>1. UNCHANGED <<pc, session, key, owner, work, backlog>>
    BY <1>7 DEF vars, handlers, locks, threads
  <2>2. NoRepeats'
    BY <1>0, <2>1 DEF NoRepeats
  <2>3. ASSUME NEW d \in Calls PROVE CallAt(d)'
    BY <1>0, <2>1 DEF CallAt, HoldsLock, InBacklog
  <2> QED
    BY <2>2, <2>3
<1>8. \A c \in Calls : ~ Cancel(c)
  BY DEF Cancel, CancelWaiting, CancelWorking
<1>9. NoRepeats' /\ \A d \in Calls : CallAt(d)'
  <2>1. CASE UNCHANGED vars
    BY <1>7, <2>1
  <2>2. CASE Next
    <3>1. PICK c \in Calls : Arrive(c) \/ Acquire(c) \/ Finish(c) \/ Begin(c) \/ End(c)
      BY <1>8, <2>2 DEF Next, Resume
    <3>2. CASE Arrive(c)
      BY <1>2, <3>2
    <3>3. CASE Acquire(c)
      BY <1>3, <3>3
    <3>4. CASE Finish(c)
      BY <1>4, <3>4
    <3>5. CASE Begin(c)
      BY <1>5, <3>5
    <3>6. CASE End(c)
      BY <1>6, <3>6
    <3> QED
      BY <3>1, <3>2, <3>3, <3>4, <3>5, <3>6
  <2> QED
    BY <2>1, <2>2
<1> QED
  BY <1>1, <1>9 DEF DispatchInvariant

(***************************************************************************)
(* Without cancellation a use case that has not returned has its handler   *)
(* hold the lock of its session (mcp_server.py:475).                       *)
(***************************************************************************)
THEOREM DispatchInvariantHolds == "cancel" \notin Faults => (Spec => []DispatchInvariant)
<1> SUFFICES ASSUME "cancel" \notin Faults PROVE Spec => []DispatchInvariant
  OBVIOUS
<1>1. DispatchInvariant /\ [Next]_vars => DispatchInvariant'
  BY DispatchStep
<1> QED
  BY <1>1, DispatchInitInvariant, PTL DEF Spec

(***************************************************************************)
(* Without cancellation no two use cases ever run on one session, whether  *)
(* their callers named it or had it resolved.                              *)
(***************************************************************************)
THEOREM SessionsAreSerial == "cancel" \notin Faults => (Spec => []SessionSerial)
<1> SUFFICES ASSUME "cancel" \notin Faults PROVE Spec => []SessionSerial
  OBVIOUS
<1>1. DispatchInvariant => SessionSerial
  BY DEF DispatchInvariant, SessionSerial, CallAt, HoldsLock
<1> QED
  BY <1>1, DispatchInvariantHolds, PTL

-----------------------------------------------------------------------------
(***************************************************************************)
(* Answers and records, whoever cancels, as long as every append works.    *)
(***************************************************************************)
\* A record goes to the end of one log and changes nothing in any.
Recorded(c, k, code) ==
  /\ \A l \in Keys : DOMAIN log[l] \subseteq DOMAIN log'[l]
  /\ \A l \in Keys : \A i \in DOMAIN log[l] : log'[l][i] = log[l][i]
  /\ \E i \in DOMAIN log'[k] :
       /\ log'[k][i] = [call |-> c, exit |-> code]
       /\ \A l \in Keys : \A j \in DOMAIN log'[l] : j \in DOMAIN log[l] \/ (l = k /\ j = i)

\* That is what an append which works does.
LEMMA LogAdds ==
  ASSUME TypeOK, "log" \notin Faults, NEW c \in Calls, NEW k \in Keys, NEW code \in {0, 1},
         Log(c, k, code)
  PROVE  Recorded(c, k, code)
<1> DEFINE r == [call |-> c, exit |-> code]
<1>1. r \in Records /\ log[k] \in Seq(Records) /\ log \in [Keys -> Seq(Records)]
  BY DEF TypeOK, Records
<1> HIDE DEF r
<1>2. log' = [log EXCEPT ![k] = Append(log[k], r)]
  BY DEF Log, r
<1>3. /\ log'[k] \in Seq(Records) /\ Len(log'[k]) = Len(log[k]) + 1
      /\ \A i \in 1 .. Len(log[k]) : log'[k][i] = log[k][i]
      /\ log'[k][Len(log[k]) + 1] = r
      /\ \A l \in Keys : l # k => log'[l] = log[l]
  BY <1>1, <1>2, AppendProperties
<1>4. /\ DOMAIN log[k] = 1 .. Len(log[k]) /\ Len(log[k]) \in Nat
      /\ DOMAIN log'[k] = 1 .. Len(log'[k])
  BY <1>1, <1>3, LenProperties
<1>5. /\ Len(log[k]) + 1 \in DOMAIN log'[k]
      /\ \A j \in DOMAIN log'[k] : j \in DOMAIN log[k] \/ j = Len(log[k]) + 1
      /\ DOMAIN log[k] \subseteq DOMAIN log'[k]
  BY <1>3, <1>4
<1>6. \A l \in Keys : /\ DOMAIN log[l] \subseteq DOMAIN log'[l]
                      /\ \A i \in DOMAIN log[l] : log'[l][i] = log[l][i]
  BY <1>3, <1>4, <1>5
<1> DEFINE n == Len(log[k]) + 1
<1>7. /\ n \in DOMAIN log'[k] /\ log'[k][n] = r
      /\ \A j \in DOMAIN log'[k] : j \in DOMAIN log[k] \/ j = n
  BY <1>3, <1>5
<1> HIDE DEF n
<1>8. \A l \in Keys : \A j \in DOMAIN log'[l] : j \in DOMAIN log[l] \/ (l = k /\ j = n)
  BY <1>3, <1>7
<1> QED
  BY <1>6, <1>7, <1>8 DEF r, Recorded

\* Another call's record leaves what is said of this call's.
LEMMA OthersRecordsStay ==
  ASSUME TypeOK, "log" \notin Faults, NEW c \in Calls, NEW k \in Keys, NEW code \in {0, 1},
         Log(c, k, code), NEW d \in Calls, d # c, session'[d] = session[d]
  PROVE  /\ Unrecorded(d) => Unrecorded(d)'
         /\ \A x \in {0, 1} : RecordedOnce(d, x) => RecordedOnce(d, x)'
<1>1. /\ \A l \in Keys : DOMAIN log[l] \subseteq DOMAIN log'[l]
      /\ \A l \in Keys : \A i \in DOMAIN log[l] : log'[l][i] = log[l][i]
      /\ \A l \in Keys : \A j \in DOMAIN log'[l] :
           j \in DOMAIN log[l] \/ log'[l][j].call = c
  <2>1. Recorded(c, k, code)
    BY LogAdds
  <2> QED
    BY <2>1 DEF Recorded
<1>2. session[d] \in Keys
  BY DEF TypeOK
<1> QED
  BY <1>1, <1>2 DEF Unrecorded, RecordedOnce

\* A step that submits c's use case keeps the invariant of all calls.
LEMMA SubmitKeepsAnswers ==
  ASSUME AnswerInvariant, NEW c \in Calls, Submit(c), pc[c] \in {"idle", "waiting"},
         pc' = [pc EXCEPT ![c] = "working"], UNCHANGED <<reply, log>>,
         \A d \in Calls \ {c} : session'[d] = session[d]
  PROVE  NoRepeats' /\ \A d \in Calls : AnswerAt(d)'
<1>1. work[c] = "none" /\ reply[c] = "none" /\ Unrecorded(c) /\ ~ InBacklog(c) /\ TypeOK
  BY DEF AnswerInvariant, AnswerAt
<1>2. NoRepeats' /\ \A d \in Calls : InBacklog(d)' => InBacklog(d) \/ d = c
  BY <1>1, SubmitOnce DEF AnswerInvariant
<1>3. AnswerAt(c)'
  BY <1>1 DEF AnswerAt, Submit, TypeOK, Unrecorded
<1>4. ASSUME NEW d \in Calls \ {c} PROVE AnswerAt(d)'
  <2>1. pc'[d] = pc[d] /\ work'[d] = work[d] /\ session'[d] = session[d]
    BY <1>1 DEF TypeOK, Submit
  <2>2. AnswerAt(d)
    BY DEF AnswerInvariant
  <2> QED
    BY <1>2, <2>1, <2>2 DEF AnswerAt, Unrecorded, RecordedOnce
<1> QED
  BY <1>2, <1>3, <1>4

\* A step in which a handler ends: it answers, and may write its record.
LEMMA EndKeepsAnswers ==
  ASSUME AnswerInvariant, NEW c \in Calls, NEW what \in {"ok", "error", "cancelled"},
         pc[c] # "ended", pc' = [pc EXCEPT ![c] = "ended"], Reply(c, what),
         UNCHANGED session, NoRepeats',
         \A d \in Calls : InBacklog(d)' => InBacklog(d) /\ work'[d] = work[d],
         \A d \in Calls \ {c} : work'[d] = work[d],
         \A d \in Calls \ {c} :
            /\ Unrecorded(d) => Unrecorded(d)'
            /\ \A x \in {0, 1} : RecordedOnce(d, x) => RecordedOnce(d, x)',
         what # "cancelled" /\ work'[c] # "none" =>
            what = work'[c] /\ RecordedOnce(c, IF work[c] = "ok" THEN 0 ELSE 1)'
  PROVE  NoRepeats' /\ \A d \in Calls : AnswerAt(d)'
<1>1. TypeOK /\ \A d \in Calls : AnswerAt(d)
  BY DEF AnswerInvariant
<1>2. AnswerAt(c)'
  <2>1. pc'[c] = "ended" /\ reply'[c] = what
    BY <1>1 DEF TypeOK, Reply
  <2> QED
    BY <1>1, <2>1 DEF AnswerAt
<1>3. ASSUME NEW d \in Calls \ {c} PROVE AnswerAt(d)'
  <2>1. pc'[d] = pc[d] /\ reply'[d] = reply[d] /\ work'[d] = work[d]
    BY <1>1 DEF TypeOK, Reply
  <2> QED
    BY <1>1, <2>1 DEF AnswerAt
<1> QED
  BY <1>2, <1>3

\* The invariant holds at the start.
LEMMA AnswerAtInit == Init => AnswerInvariant
  BY DispatchInitInvariant, EmptySeq
  DEF Init, AnswerInvariant, DispatchInvariant, AnswerAt, CallAt, Unrecorded

\* A handler that has not awaited anything yet, or only its lock.
LEMMA EnterKeepsAnswers ==
  ASSUME AnswerInvariant, NEW c \in Calls, NEW k \in Keys, pc[c] = "idle", Enter(c, k, k)
  PROVE  NoRepeats' /\ \A d \in Calls : AnswerAt(d)'
<1> USE DEF Enter, Goto
<1>1. TypeOK /\ \A d \in Calls : AnswerAt(d)
  BY DEF AnswerInvariant
<1>2. \A d \in Calls \ {c} : session'[d] = session[d]
  BY <1>1 DEF TypeOK
<1>3. CASE owner[k] = Nobody /\ waiters[k] = <<>>
  BY <1>2, <1>3, SubmitKeepsAnswers
<1>4. CASE ~ (owner[k] = Nobody /\ waiters[k] = <<>>)
  <2>1. UNCHANGED <<work, backlog, reply, log>> /\ pc' = [pc EXCEPT ![c] = "waiting"]
    BY <1>4 DEF threads
  <2>2. NoRepeats'
    BY <2>1 DEF NoRepeats, AnswerInvariant
  <2>3. ASSUME NEW d \in Calls PROVE AnswerAt(d)'
    <3>1. d # c => pc'[d] = pc[d] /\ session'[d] = session[d]
      BY <1>1, <2>1 DEF TypeOK
    <3>2. d = c => pc'[d] = "waiting" /\ work[d] = "none" /\ reply[d] = "none" /\ Unrecorded(d)
      BY <1>1, <2>1 DEF TypeOK, AnswerAt
    <3> QED
      BY <1>1, <2>1, <3>1, <3>2 DEF AnswerAt, InBacklog, Unrecorded, RecordedOnce
  <2> QED
    BY <2>2, <2>3
<1> QED
  BY <1>3, <1>4

\* The invariant is kept by every step.
LEMMA AnswersAreKept ==
  ASSUME "log" \notin Faults, AnswerInvariant, [Next]_vars
  PROVE  AnswerInvariant'
<1>0. TypeOK /\ NoRepeats /\ \A d \in Calls : AnswerAt(d)
  BY DEF AnswerInvariant
<1>1. TypeOK'
  BY <1>0, DispatchNextType
<1>2. ASSUME NEW c \in Calls, ArriveBound(c) \/ ArriveGlobal(c)
      PROVE  NoRepeats' /\ \A d \in Calls : AnswerAt(d)'
  BY <1>2, EnterKeepsAnswers DEF ArriveBound, ArriveGlobal, LockKey, Keys
<1>3. ASSUME NEW c \in Calls, ResolveFails(c) \/ Refuse(c)
      PROVE  NoRepeats' /\ \A d \in Calls : AnswerAt(d)'
  <2>1. /\ pc[c] = "idle" /\ pc' = [pc EXCEPT ![c] = "ended"] /\ Reply(c, "error")
        /\ UNCHANGED <<session, work, backlog>>
    BY <1>3 DEF ResolveFails, Refuse, Goto, threads
  <2>2. work[c] = "none"
    BY <1>0, <2>1 DEF AnswerAt
  <2>3. ASSUME NEW d \in Calls \ {c}
        PROVE  /\ Unrecorded(d) => Unrecorded(d)'
               /\ \A x \in {0, 1} : RecordedOnce(d, x) => RecordedOnce(d, x)'
    <3>1. CASE Log(c, Global, 1)
      BY <1>0, <2>1, <3>1, OthersRecordsStay DEF Keys
    <3>2. CASE UNCHANGED log
      BY <2>1, <3>2 DEF Unrecorded, RecordedOnce
    <3> QED
      BY <1>3, <3>1, <3>2 DEF ResolveFails, Refuse
  <2>4. NoRepeats' /\ \A d \in Calls : InBacklog(d)' => InBacklog(d) /\ work'[d] = work[d]
    BY <1>0, <2>1 DEF NoRepeats, InBacklog
  <2> QED
    BY <2>1, <2>2, <2>3, <2>4, EndKeepsAnswers
<1>4. ASSUME NEW c \in Calls, Acquire(c) PROVE NoRepeats' /\ \A d \in Calls : AnswerAt(d)'
  BY <1>4, SubmitKeepsAnswers DEF Acquire, Goto
<1>5. ASSUME NEW c \in Calls, Finish(c) PROVE NoRepeats' /\ \A d \in Calls : AnswerAt(d)'
  <2> DEFINE code == IF work[c] = "ok" THEN 0 ELSE 1
  <2>1. /\ pc[c] = "working" /\ work[c] \in {"ok", "error"} /\ Reply(c, work[c])
        /\ pc' = [pc EXCEPT ![c] = "ended"] /\ UNCHANGED <<session, work, backlog>>
        /\ Log(c, session[c], code) /\ session[c] \in Keys /\ code \in {0, 1}
    BY <1>0, <1>5 DEF Finish, Goto, threads, TypeOK
  <2> HIDE DEF code
  <2>2. RecordedOnce(c, code)'
    <3>1. Unrecorded(c)
      BY <1>0, <2>1 DEF AnswerAt
    <3>2. Recorded(c, session[c], code)
      BY <1>0, <2>1, LogAdds
    <3>3. PICK i \in DOMAIN log'[session[c]] :
             /\ log'[session[c]][i] = [call |-> c, exit |-> code]
             /\ \A l \in Keys : \A j \in DOMAIN log'[l] :
                  j \in DOMAIN log[l] \/ (l = session[c] /\ j = i)
      BY <3>2 DEF Recorded
    <3>4. \A l \in Keys : \A j \in DOMAIN log'[l] :
             log'[l][j].call = c => l = session[c] /\ j = i
      BY <3>1, <3>2, <3>3 DEF Unrecorded, Recorded
    <3> QED
      BY <2>1, <3>3, <3>4 DEF RecordedOnce, code
  <2>3. ASSUME NEW d \in Calls \ {c}
        PROVE  /\ Unrecorded(d) => Unrecorded(d)'
               /\ \A x \in {0, 1} : RecordedOnce(d, x) => RecordedOnce(d, x)'
    BY <1>0, <2>1, OthersRecordsStay
  <2>4. NoRepeats' /\ \A d \in Calls : InBacklog(d)' => InBacklog(d) /\ work'[d] = work[d]
    BY <1>0, <2>1 DEF NoRepeats, InBacklog
  <2>5. RecordedOnce(c, IF work[c] = "ok" THEN 0 ELSE 1)'
    BY <2>1, <2>2 DEF code, RecordedOnce
  <2> QED
    BY <2>1, <2>3, <2>4, <2>5, EndKeepsAnswers
<1>6. ASSUME NEW c \in Calls, CancelWaiting(c) PROVE NoRepeats' /\ \A d \in Calls : AnswerAt(d)'
  <2>1. /\ pc[c] = "waiting" /\ pc' = [pc EXCEPT ![c] = "ended"] /\ Reply(c, "cancelled")
        /\ UNCHANGED <<session, work, backlog, log>>
    BY <1>6 DEF CancelWaiting, Goto, threads
  <2>2. \A d \in Calls \ {c} :
            /\ Unrecorded(d) => Unrecorded(d)'
            /\ \A x \in {0, 1} : RecordedOnce(d, x) => RecordedOnce(d, x)'
    BY <2>1 DEF Unrecorded, RecordedOnce
  <2>3. NoRepeats' /\ \A d \in Calls : InBacklog(d)' => InBacklog(d) /\ work'[d] = work[d]
    BY <1>0, <2>1 DEF NoRepeats, InBacklog
  <2> QED
    BY <2>1, <2>2, <2>3, EndKeepsAnswers
<1>7. ASSUME NEW c \in Calls, CancelWorking(c) PROVE NoRepeats' /\ \A d \in Calls : AnswerAt(d)'
  <2>1. /\ pc[c] = "working" /\ pc' = [pc EXCEPT ![c] = "ended"] /\ Reply(c, "cancelled")
        /\ UNCHANGED session /\ Log(c, session[c], 0) /\ session[c] \in Keys
        /\ \A d \in Calls \ {c} : work'[d] = work[d]
    BY <1>0, <1>7 DEF CancelWorking, Goto, threads, TypeOK
  <2>2. ASSUME NEW d \in Calls \ {c}
        PROVE  /\ Unrecorded(d) => Unrecorded(d)'
               /\ \A x \in {0, 1} : RecordedOnce(d, x) => RecordedOnce(d, x)'
    BY <1>0, <2>1, OthersRecordsStay
  <2>3. NoRepeats' /\ \A d \in Calls : InBacklog(d)' => InBacklog(d) /\ work'[d] = work[d]
    <3>1. CASE UNCHANGED threads
      BY <1>0, <3>1 DEF threads, NoRepeats, InBacklog
    <3>2. CASE ~ UNCHANGED threads
      <4>1. PICK i \in DOMAIN backlog : backlog[i] = c /\ backlog' = RemoveAt(backlog, i)
        BY <1>7, <3>2 DEF CancelWorking
      <4>2. backlog \in Seq(Calls) /\ \A j, k \in DOMAIN backlog : backlog[j] = backlog[k] => j = k
        BY <1>0 DEF TypeOK, NoRepeats
      <4>3. /\ \A j, k \in DOMAIN backlog' : backlog'[j] = backlog'[k] => j = k
            /\ \A j \in DOMAIN backlog' : /\ backlog'[j] # c
                                          /\ \E k \in DOMAIN backlog : backlog'[j] = backlog[k]
        <5>1. Without(backlog, i, backlog')
          BY <4>1, <4>2, RemoveWithout
        <5> QED
          BY <4>1, <4>2, <5>1, WithoutRepeats
      <4> QED
        BY <2>1, <4>3 DEF NoRepeats, InBacklog
    <3> QED
      BY <3>1, <3>2
  <2> QED
    BY <2>1, <2>2, <2>3, EndKeepsAnswers
<1>8. ASSUME NEW c \in Calls, Begin(c) \/ End(c) PROVE NoRepeats' /\ \A d \in Calls : AnswerAt(d)'
  <2>1. UNCHANGED <<pc, session, reply, log>>
    BY <1>8 DEF Begin, End, handlers
  <2>2. /\ NoRepeats' /\ \A d \in Calls : InBacklog(d)' => InBacklog(d) /\ d # c
        /\ work[c] \in {"queued", "running"}
        /\ work'[c] # "none" /\ \A d \in Calls \ {c} : work'[d] = work[d]
    <3>1. CASE Begin(c)
      <4>1. /\ backlog \in Seq(Calls) /\ backlog # <<>> /\ backlog' = Tail(backlog)
            /\ Head(backlog) = c /\ work' = [work EXCEPT ![c] = "running"]
            /\ \A i, j \in DOMAIN backlog : backlog[i] = backlog[j] => i = j
        BY <1>0, <3>1 DEF Begin, TypeOK, NoRepeats
      <4>2. /\ \A i, j \in DOMAIN Tail(backlog) : Tail(backlog)[i] = Tail(backlog)[j] => i = j
            /\ \A i \in DOMAIN Tail(backlog) : Tail(backlog)[i] # Head(backlog)
            /\ \A i \in DOMAIN Tail(backlog) : \E j \in DOMAIN backlog : backlog[j] = Tail(backlog)[i]
        BY <4>1, TailOfQueue, Zenon
      <4>3. NoRepeats' /\ \A d \in Calls : InBacklog(d)' => InBacklog(d) /\ d # c
        BY <4>1, <4>2, Zenon DEF NoRepeats, InBacklog
      <4>4. InBacklog(c)
        <5>1. DOMAIN backlog = 1 .. Len(backlog) /\ Len(backlog) \in Nat \ {0}
          BY <4>1, LenProperties, EmptySeq
        <5>2. 1 \in DOMAIN backlog /\ backlog[1] = c
          BY <4>1, <5>1
        <5> QED
          BY <5>2 DEF InBacklog
      <4> QED
        BY <1>0, <4>1, <4>3, <4>4 DEF AnswerAt, TypeOK
    <3>2. CASE End(c)
      BY <1>0, <3>2 DEF End, TypeOK, AnswerAt, NoRepeats, InBacklog
    <3> QED
      BY <1>8, <3>1, <3>2
  <2>3. ASSUME NEW d \in Calls PROVE AnswerAt(d)'
    <3>1. Unrecorded(d) => Unrecorded(d)'
      BY <2>1 DEF Unrecorded
    <3>2. \A x \in {0, 1} : RecordedOnce(d, x) => RecordedOnce(d, x)'
      BY <2>1 DEF RecordedOnce
    <3>3. AnswerAt(d)
      BY <1>0
    <3>4. CASE d = c
      <4>1. pc[d] \notin {"idle", "waiting"} /\ reply[d] \notin {"ok", "error"}
        BY <2>2, <3>3, <3>4 DEF AnswerAt
      <4> QED
        BY <2>1, <2>2, <3>1, <3>3, <3>4, <4>1 DEF AnswerAt
    <3>5. CASE d # c
      BY <2>1, <2>2, <3>1, <3>2, <3>3, <3>5 DEF AnswerAt
    <3> QED
      BY <3>4, <3>5
  <2> QED
    BY <2>2, <2>3
<1>9. ASSUME UNCHANGED vars PROVE NoRepeats' /\ \A d \in Calls : AnswerAt(d)'
  BY <1>0, <1>9 DEF vars, handlers, threads, NoRepeats, AnswerAt, InBacklog, Unrecorded,
     RecordedOnce
<1> QED
  BY <1>1, <1>2, <1>3, <1>4, <1>5, <1>6, <1>7, <1>8, <1>9
  DEF AnswerInvariant, Next, Arrive, Resume, Cancel

(***************************************************************************)
(* As long as every append to the log works, a call whose use case was     *)
(* submitted and that got an answer got the outcome of its use case, and   *)
(* has one record with that outcome, in the log of its session: whatever   *)
(* other calls do, and whichever of them are cancelled.                    *)
(***************************************************************************)
THEOREM AnswersAndRecordsAgree == "log" \notin Faults => (Spec => []AnswerIsTrue)
<1> SUFFICES ASSUME "log" \notin Faults PROVE Spec => []AnswerIsTrue
  OBVIOUS
<1>1. AnswerInvariant /\ [Next]_vars => AnswerInvariant'
  BY AnswersAreKept
<1>2. AnswerInvariant => AnswerIsTrue
  <2> SUFFICES ASSUME AnswerInvariant, NEW c \in Calls, reply[c] \in {"ok", "error"},
                      work[c] # "none"
               PROVE  /\ reply[c] = work[c]
                      /\ RecordOf(c) = {[call |-> c, exit |-> IF work[c] = "ok" THEN 0 ELSE 1]}
                      /\ Cardinality({i \in DOMAIN log[session[c]] :
                                        log[session[c]][i].call = c}) = 1
    BY DEF AnswerIsTrue
  <2> DEFINE r == [call |-> c, exit |-> IF work[c] = "ok" THEN 0 ELSE 1]
  <2>1. reply[c] = work[c] /\ session[c] \in Keys
    BY DEF AnswerInvariant, AnswerAt, TypeOK
  <2>2. PICK i \in DOMAIN log[session[c]] :
           /\ log[session[c]][i] = r
           /\ \A k \in Keys : \A j \in DOMAIN log[k] :
                log[k][j].call = c => k = session[c] /\ j = i
    BY DEF AnswerInvariant, AnswerAt, RecordedOnce
  <2>3. r.call = c
    OBVIOUS
  <2> HIDE DEF r
  <2>4. RecordOf(c) = {r}
    BY <2>1, <2>2, <2>3 DEF RecordOf, ToSet
  <2>5. {j \in DOMAIN log[session[c]] : log[session[c]][j].call = c} = {i}
    BY <2>1, <2>2, <2>3
  <2>6. Cardinality({i}) = 1
    BY FS_Singleton
  <2> QED
    BY <2>1, <2>4, <2>5, <2>6 DEF r
<1> QED
  BY <1>1, <1>2, AnswerAtInit, PTL DEF Spec

-----------------------------------------------------------------------------
(***************************************************************************)
(* The locks, whoever cancels.                                             *)
(***************************************************************************)
NoneTwice == \A k \in Keys : \A i, j \in DOMAIN waiters[k] : waiters[k][i] = waiters[k][j] => i = j

LEMMA LockInit == Init => LockInvariant
  BY DispatchInitInvariant, EmptySeq, NobodyAssumption
  DEF Init, LockInvariant, DispatchInvariant, LockAt, InLine, InBacklog, TypeOK

\* The steps that submit: c has just got the lock k of its session.
LEMMA SubmitKeepsLocks ==
  ASSUME LockInvariant, NEW c \in Calls, NEW k \in Keys, Submit(c),
         pc[c] \in {"idle", "waiting"}, owner[k] = Nobody, owner' = [owner EXCEPT ![k] = c],
         pc' = [pc EXCEPT ![c] = "working"], UNCHANGED reply,
         key'[c] = k, session'[c] = k,
         \A d \in Calls \ {c} : key'[d] = key[d] /\ session'[d] = session[d],
         \A l \in Keys : ~ InLine(c, l)',
         \A d \in Calls \ {c}, l \in Keys : InLine(d, l)' <=> InLine(d, l)
  PROVE  NoRepeats' /\ \A d \in Calls : LockAt(d)'
<1>1. ~ InBacklog(c) /\ TypeOK /\ NoRepeats /\ \A d \in Calls : LockAt(d)
  BY DEF LockInvariant, LockAt
<1>2. NoRepeats' /\ \A d \in Calls : InBacklog(d)' => InBacklog(d) \/ d = c
  BY <1>1, SubmitOnce
<1>3. LockAt(c)'
  <2>1. /\ pc'[c] = "working" /\ work'[c] = "queued" /\ reply'[c] = "none" /\ owner'[k] = c
        /\ \A l \in Keys : owner'[l] = c => l = k
    BY <1>1 DEF LockAt, Submit, TypeOK
  <2> QED
    BY <2>1 DEF LockAt
<1>4. ASSUME NEW d \in Calls \ {c} PROVE LockAt(d)'
  <2>1. LockAt(d) /\ key[d] \in Keys
    BY <1>1 DEF TypeOK
  <2>2. pc'[d] = pc[d] /\ work'[d] = work[d] /\ reply'[d] = reply[d]
    BY <1>1 DEF TypeOK, Submit
  <2>3. \A l \in Keys : owner'[l] = d <=> owner[l] = d
    BY <1>1, NobodyAssumption DEF TypeOK
  <2> QED
    BY <1>2, <2>1, <2>2, <2>3 DEF LockAt
<1> QED
  BY <1>2, <1>3, <1>4

\* A step in which a handler ends, and no longer has or awaits a lock.
LEMMA EndKeepsLocks ==
  ASSUME LockInvariant, NEW c \in Calls, pc[c] # "ended", pc' = [pc EXCEPT ![c] = "ended"],
         NEW what \in Replies, Reply(c, what), UNCHANGED <<session, key>>,
         work'[c] \notin {"queued", "running"} \/ (work'[c] = "running" /\ what = "cancelled"),
         \A d \in Calls \ {c} : work'[d] = work[d],
         \A d \in Calls : InBacklog(d)' => InBacklog(d) /\ work'[d] = work[d],
         \A k \in Keys : owner'[k] # c /\ ~ InLine(c, k)',
         \A d \in Calls \ {c}, k \in Keys : /\ owner'[k] = d <=> owner[k] = d
                                            /\ InLine(d, k)' <=> InLine(d, k)
  PROVE  \A d \in Calls : LockAt(d)'
<1>1. TypeOK /\ \A d \in Calls : LockAt(d)
  BY DEF LockInvariant
<1>2. LockAt(c)'
  <2>1. pc'[c] = "ended" /\ reply'[c] = what
    BY <1>1 DEF TypeOK, Reply
  <2>2. InBacklog(c)' => work'[c] = "queued"
    BY <1>1 DEF LockAt
  <2> QED
    BY <2>1, <2>2 DEF LockAt
<1>3. ASSUME NEW d \in Calls \ {c} PROVE LockAt(d)'
  <2>1. pc'[d] = pc[d] /\ reply'[d] = reply[d] /\ work'[d] = work[d] /\ key[d] \in Keys
    BY <1>1 DEF TypeOK, Reply
  <2> QED
    BY <1>1, <2>1 DEF LockAt
<1> QED
  BY <1>2, <1>3

\* A handler that arrives takes a free lock or queues up.
LEMMA EnterKeepsLocks ==
  ASSUME LockInvariant, NEW c \in Calls, NEW k \in Keys, pc[c] = "idle", Enter(c, k, k)
  PROVE  NoRepeats' /\ NoneTwice' /\ \A d \in Calls : LockAt(d)'
<1> USE DEF Enter, Goto
<1>1. /\ TypeOK /\ NoRepeats /\ NoneTwice /\ \A d \in Calls : LockAt(d)
      /\ \A l \in Keys : ~ InLine(c, l)
  BY DEF LockInvariant, LockAt, NoneTwice
<1>2. CASE owner[k] = Nobody /\ waiters[k] = <<>>
  <2>1. UNCHANGED waiters /\ NoneTwice'
    BY <1>1, <1>2 DEF NoneTwice
  <2>2. \A d \in Calls, l \in Keys : InLine(d, l)' <=> InLine(d, l)
    BY <2>1 DEF InLine
  <2>3. NoRepeats' /\ \A d \in Calls : LockAt(d)'
    BY <1>1, <1>2, <2>2, SubmitKeepsLocks DEF TypeOK
  <2> QED
    BY <2>1, <2>3
<1>3. CASE ~ (owner[k] = Nobody /\ waiters[k] = <<>>)
  <2>1. /\ UNCHANGED <<owner, work, backlog, reply>> /\ pc' = [pc EXCEPT ![c] = "waiting"]
        /\ session' = [session EXCEPT ![c] = k] /\ key' = [key EXCEPT ![c] = k]
        /\ waiters' = [waiters EXCEPT ![k] = Append(waiters[k], c)]
    BY <1>3 DEF threads
  <2>2. NoRepeats'
    BY <1>1, <2>1 DEF NoRepeats
  <2>3. /\ \A i \in DOMAIN waiters[k] : i \in DOMAIN waiters'[k] /\ waiters'[k][i] = waiters[k][i]
        /\ \A i \in DOMAIN waiters'[k] : i \in DOMAIN waiters[k] \/ i = Len(waiters[k]) + 1
        /\ Len(waiters[k]) + 1 \in DOMAIN waiters'[k] /\ waiters'[k][Len(waiters[k]) + 1] = c
    <3>1. waiters[k] \in Seq(Calls) /\ waiters'[k] = Append(waiters[k], c)
      BY <1>1, <2>1 DEF TypeOK
    <3> QED
      BY <3>1, AppendOnce
  <2>4. \A l \in Keys \ {k} : waiters'[l] = waiters[l]
    BY <1>1, <2>1 DEF TypeOK
  <2>5. NoneTwice'
    <3>1. \A i, j \in DOMAIN waiters'[k] : waiters'[k][i] = waiters'[k][j] => i = j
      BY <1>1, <2>3 DEF NoneTwice, InLine
    <3> QED
      BY <1>1, <2>4, <3>1 DEF NoneTwice
  <2>6. InLine(c, k)' /\ \A d \in Calls, l \in Keys : InLine(d, l)' <=> InLine(d, l) \/ (d = c /\ l = k)
    BY <2>3, <2>4 DEF InLine
  <2>7. LockAt(c)'
    <3>1. pc'[c] = "waiting" /\ key'[c] = k /\ session'[c] = k
      BY <1>1, <2>1 DEF TypeOK
    <3> QED
      BY <1>1, <2>1, <2>6, <3>1 DEF LockAt, InBacklog
  <2>8. ASSUME NEW d \in Calls \ {c} PROVE LockAt(d)'
    <3>1. pc'[d] = pc[d] /\ key'[d] = key[d] /\ session'[d] = session[d] /\ key[d] \in Keys
      BY <1>1, <2>1 DEF TypeOK
    <3> QED
      BY <1>1, <2>1, <2>6, <3>1 DEF LockAt, InBacklog
  <2> QED
    BY <2>2, <2>5, <2>7, <2>8
<1> QED
  BY <1>2, <1>3

LEMMA LocksAreKept == LockInvariant /\ [Next]_vars => LockInvariant'
<1> SUFFICES ASSUME LockInvariant, [Next]_vars PROVE LockInvariant'
  OBVIOUS
<1>0. TypeOK /\ NoRepeats /\ NoneTwice /\ \A d \in Calls : LockAt(d)
  BY DEF LockInvariant, NoneTwice
<1>1. TypeOK'
  BY <1>0, DispatchNextType
<1> DEFINE Kept == NoRepeats' /\ NoneTwice' /\ \A d \in Calls : LockAt(d)'
<1>2. ASSUME NEW c \in Calls, ArriveBound(c) \/ ArriveGlobal(c) PROVE Kept
  BY <1>2, EnterKeepsLocks DEF ArriveBound, ArriveGlobal, LockKey, Keys
<1>3. ASSUME NEW c \in Calls, ResolveFails(c) \/ Refuse(c) PROVE Kept
  <2>1. /\ pc[c] = "idle" /\ pc' = [pc EXCEPT ![c] = "ended"] /\ Reply(c, "error")
        /\ UNCHANGED <<session, key, owner, waiters, work, backlog>>
    BY <1>3 DEF ResolveFails, Refuse, Goto, threads, locks
  <2>2. NoRepeats' /\ NoneTwice'
    BY <1>0, <2>1 DEF NoRepeats, NoneTwice
  <2>3. \A d \in Calls : /\ InBacklog(d)' <=> InBacklog(d)
                         /\ \A k \in Keys : InLine(d, k)' <=> InLine(d, k)
    BY <2>1 DEF InBacklog, InLine
  <2>4. work[c] = "none" /\ \A k \in Keys : owner[k] # c /\ ~ InLine(c, k)
    BY <1>0, <2>1 DEF LockAt
  <2>5. \A d \in Calls : LockAt(d)'
    BY <2>1, <2>3, <2>4, EndKeepsLocks DEF Replies
  <2> QED
    BY <2>2, <2>5
<1>4. ASSUME NEW c \in Calls, Acquire(c) PROVE Kept
  <2> DEFINE k == key[c]
  <2>1. /\ pc[c] = "waiting" /\ pc' = [pc EXCEPT ![c] = "working"] /\ k \in Keys
        /\ owner[k] = Nobody /\ owner' = [owner EXCEPT ![k] = c]
        /\ waiters[k] # <<>> /\ Head(waiters[k]) = c
        /\ waiters' = [waiters EXCEPT ![k] = Tail(waiters[k])]
        /\ Submit(c) /\ UNCHANGED <<session, key, reply>>
    BY <1>0, <1>4 DEF Acquire, Goto, TypeOK
  <2>2. k = key[c] /\ k = session[c] /\ \A l \in Keys \ {k} : ~ InLine(c, l)
    BY <1>0, <2>1 DEF LockAt
  <2> HIDE DEF k
  <2>3. waiters[k] \in Seq(Calls) /\ waiters'[k] = Tail(waiters[k])
        /\ \A l \in Keys \ {k} : waiters'[l] = waiters[l]
    BY <1>0, <2>1 DEF TypeOK
  <2>4. Without(waiters[k], 1, waiters'[k]) /\ 1 \in DOMAIN waiters[k] /\ waiters[k][1] = c
    BY <2>1, <2>3, TailWithout
  <2>5. \A i, j \in DOMAIN waiters[k] : waiters[k][i] = waiters[k][j] => i = j
    BY <1>0, <2>1 DEF NoneTwice
  <2>6. /\ \A i, j \in DOMAIN waiters'[k] : waiters'[k][i] = waiters'[k][j] => i = j
        /\ \A j \in DOMAIN waiters'[k] :
             waiters'[k][j] # c /\ \E i \in DOMAIN waiters[k] : waiters'[k][j] = waiters[k][i]
        /\ \A i \in DOMAIN waiters[k] : waiters[k][i] # c =>
             \E j \in DOMAIN waiters'[k] : waiters'[k][j] = waiters[k][i]
    BY <2>4, <2>5, WithoutRepeats
  <2>7. NoneTwice'
    BY <1>0, <2>3, <2>6 DEF NoneTwice
  <2>8. /\ \A l \in Keys : ~ InLine(c, l)'
        /\ \A d \in Calls \ {c}, l \in Keys : InLine(d, l)' <=> InLine(d, l)
    BY <2>1, <2>2, <2>3, <2>6 DEF InLine
  <2> QED
    BY <2>1, <2>2, <2>7, <2>8, SubmitKeepsLocks
<1>5. ASSUME NEW c \in Calls, Finish(c) \/ CancelWorking(c) PROVE Kept
  <2>1. PICK what \in Replies :
          /\ pc[c] = "working" /\ pc' = [pc EXCEPT ![c] = "ended"] /\ Reply(c, what)
          /\ owner' = [owner EXCEPT ![key[c]] = Nobody]
          /\ UNCHANGED <<session, key, waiters>>
          /\ \/ UNCHANGED <<work, backlog>> /\ (work[c] \in {"ok", "error"} \/ what = "cancelled")
                /\ work[c] # "queued"
             \/ /\ work[c] = "queued" /\ work' = [work EXCEPT ![c] = "dropped"]
                /\ \E i \in DOMAIN backlog : backlog[i] = c /\ backlog' = RemoveAt(backlog, i)
    BY <1>0, <1>5 DEF Finish, CancelWorking, Goto, Release, threads, Replies
  <2>2. owner[key[c]] = c /\ key[c] \in Keys /\ \A k \in Keys : ~ InLine(c, k)
    BY <1>0, <2>1 DEF LockAt, TypeOK
  <2>3. /\ \A k \in Keys : owner'[k] # c
        /\ \A d \in Calls \ {c}, k \in Keys : owner'[k] = d <=> owner[k] = d
    BY <1>0, <2>1, <2>2, NobodyAssumption DEF TypeOK, LockAt
  <2>4. NoneTwice' /\ \A d \in Calls, k \in Keys : InLine(d, k)' <=> InLine(d, k)
    BY <1>0, <2>1 DEF NoneTwice, InLine
  <2>5. /\ NoRepeats' /\ \A d \in Calls \ {c} : work'[d] = work[d]
        /\ \A d \in Calls : InBacklog(d)' => InBacklog(d) /\ work'[d] = work[d]
        /\ work'[c] \notin {"queued", "running"} \/ (work'[c] = "running" /\ what = "cancelled")
    <3>1. CASE UNCHANGED <<work, backlog>>
      BY <1>0, <2>1, <3>1 DEF NoRepeats, InBacklog, TypeOK
    <3>2. CASE /\ work[c] = "queued" /\ work' = [work EXCEPT ![c] = "dropped"]
               /\ \E i \in DOMAIN backlog : backlog[i] = c /\ backlog' = RemoveAt(backlog, i)
      <4>1. PICK i \in DOMAIN backlog : backlog[i] = c /\ backlog' = RemoveAt(backlog, i)
        BY <3>2
      <4>2. backlog \in Seq(Calls) /\ \A j, k \in DOMAIN backlog : backlog[j] = backlog[k] => j = k
        BY <1>0 DEF TypeOK, NoRepeats
      <4>3. Without(backlog, i, backlog')
        BY <4>1, <4>2, RemoveWithout
      <4>4. /\ \A j, k \in DOMAIN backlog' : backlog'[j] = backlog'[k] => j = k
            /\ \A j \in DOMAIN backlog' : /\ backlog'[j] # c
                                          /\ \E k \in DOMAIN backlog : backlog'[j] = backlog[k]
        BY <4>1, <4>2, <4>3, WithoutRepeats
      <4>5. work'[c] = "dropped" /\ \A d \in Calls \ {c} : work'[d] = work[d]
        BY <1>0, <3>2 DEF TypeOK
      <4> QED
        BY <4>4, <4>5 DEF NoRepeats, InBacklog
    <3> QED
      BY <2>1, <3>1, <3>2
  <2>6. \A d \in Calls : LockAt(d)'
    BY <2>1, <2>2, <2>3, <2>4, <2>5, EndKeepsLocks
  <2> QED
    BY <2>4, <2>5, <2>6
<1>6. ASSUME NEW c \in Calls, CancelWaiting(c) PROVE Kept
  <2> DEFINE k == key[c]
  <2>1. /\ pc[c] = "waiting" /\ pc' = [pc EXCEPT ![c] = "ended"] /\ Reply(c, "cancelled")
        /\ UNCHANGED <<session, key, owner, work, backlog>> /\ k \in Keys
    BY <1>0, <1>6 DEF CancelWaiting, Goto, threads, TypeOK
  <2>2. PICK i \in DOMAIN waiters[k] :
          waiters[k][i] = c /\ waiters' = [waiters EXCEPT ![k] = RemoveAt(waiters[k], i)]
    BY <1>6 DEF CancelWaiting
  <2>3. work[c] = "none" /\ \A l \in Keys : owner[l] # c /\ (l # k => ~ InLine(c, l))
    BY <1>0, <2>1 DEF LockAt
  <2> HIDE DEF k
  <2>4. waiters[k] \in Seq(Calls) /\ waiters'[k] = RemoveAt(waiters[k], i)
        /\ \A l \in Keys \ {k} : waiters'[l] = waiters[l]
    BY <1>0, <2>1, <2>2 DEF TypeOK
  <2>5. Without(waiters[k], i, waiters'[k])
    BY <2>4, RemoveWithout
  <2>6. \A j, m \in DOMAIN waiters[k] : waiters[k][j] = waiters[k][m] => j = m
    BY <1>0, <2>1 DEF NoneTwice
  <2>7. /\ \A j, m \in DOMAIN waiters'[k] : waiters'[k][j] = waiters'[k][m] => j = m
        /\ \A j \in DOMAIN waiters'[k] :
             waiters'[k][j] # c /\ \E m \in DOMAIN waiters[k] : waiters'[k][j] = waiters[k][m]
        /\ \A m \in DOMAIN waiters[k] : waiters[k][m] # c =>
             \E j \in DOMAIN waiters'[k] : waiters'[k][j] = waiters[k][m]
    BY <2>2, <2>5, <2>6, WithoutRepeats
  <2>8. NoneTwice'
    BY <1>0, <2>4, <2>7 DEF NoneTwice
  <2>9. /\ \A l \in Keys : ~ InLine(c, l)'
        /\ \A d \in Calls \ {c}, l \in Keys : InLine(d, l)' <=> InLine(d, l)
    BY <2>3, <2>4, <2>7 DEF InLine
  <2>10. NoRepeats' /\ \A d \in Calls : InBacklog(d)' <=> InBacklog(d)
    BY <1>0, <2>1 DEF NoRepeats, InBacklog
  <2>11. \A d \in Calls : LockAt(d)'
    BY <2>1, <2>3, <2>9, <2>10, EndKeepsLocks DEF Replies
  <2> QED
    BY <2>8, <2>10, <2>11
<1>7. ASSUME NEW c \in Calls, Begin(c) \/ End(c) PROVE Kept
  <2>1. UNCHANGED <<pc, session, key, owner, waiters, reply>>
    BY <1>7 DEF Begin, End, handlers, locks
  <2>2. /\ NoRepeats' /\ \A d \in Calls : InBacklog(d)' => InBacklog(d) /\ d # c
        /\ \/ work[c] = "queued" /\ work'[c] = "running"
           \/ work[c] = "running" /\ work'[c] \in {"ok", "error"}
        /\ \A d \in Calls \ {c} : work'[d] = work[d]
    <3>1. CASE Begin(c)
      <4>1. /\ backlog \in Seq(Calls) /\ backlog # <<>> /\ backlog' = Tail(backlog)
            /\ Head(backlog) = c /\ work' = [work EXCEPT ![c] = "running"]
            /\ \A i, j \in DOMAIN backlog : backlog[i] = backlog[j] => i = j
        BY <1>0, <3>1 DEF Begin, TypeOK, NoRepeats
      <4>2. Without(backlog, 1, backlog') /\ 1 \in DOMAIN backlog /\ backlog[1] = c
        BY <4>1, TailWithout
      <4>3. NoRepeats' /\ \A d \in Calls : InBacklog(d)' => InBacklog(d) /\ d # c
        BY <4>1, <4>2, WithoutRepeats DEF NoRepeats, InBacklog
      <4>4. work[c] = "queued"
        BY <1>0, <4>2 DEF LockAt, InBacklog
      <4> QED
        BY <1>0, <4>1, <4>3, <4>4 DEF TypeOK
    <3>2. CASE End(c)
      <4>1. UNCHANGED backlog /\ work[c] = "running" /\ work'[c] \in {"ok", "error"}
            /\ \A d \in Calls \ {c} : work'[d] = work[d]
        BY <1>0, <3>2 DEF End, TypeOK
      <4>2. NoRepeats' /\ \A d \in Calls : InBacklog(d)' <=> InBacklog(d)
        BY <1>0, <4>1 DEF NoRepeats, InBacklog
      <4> QED
        BY <1>0, <4>1, <4>2 DEF LockAt
    <3> QED
      BY <1>7, <3>1, <3>2
  <2>3. NoneTwice' /\ \A d \in Calls, k \in Keys : InLine(d, k)' <=> InLine(d, k)
    BY <1>0, <2>1 DEF NoneTwice, InLine
  <2>4. ASSUME NEW d \in Calls PROVE LockAt(d)'
    <3>1. LockAt(d) /\ key[d] \in Keys
      BY <1>0 DEF TypeOK
    <3> QED
      BY <2>1, <2>2, <2>3, <3>1 DEF LockAt
  <2> QED
    BY <2>2, <2>3, <2>4
<1>8. ASSUME UNCHANGED vars PROVE Kept
  <2>1. UNCHANGED <<pc, session, key, owner, waiters, work, backlog, reply>>
    BY <1>8 DEF vars, handlers, locks, threads
  <2>2. NoRepeats' /\ NoneTwice' /\ \A d \in Calls : /\ InBacklog(d)' <=> InBacklog(d)
                                                     /\ \A k \in Keys : InLine(d, k)' <=> InLine(d, k)
    BY <1>0, <2>1 DEF NoRepeats, NoneTwice, InBacklog, InLine
  <2>3. ASSUME NEW d \in Calls PROVE LockAt(d)'
    BY <1>0, <2>1, <2>2 DEF LockAt, TypeOK
  <2> QED
    BY <2>2, <2>3
<1>9. Kept
  <2> HIDE DEF Kept
  <2> QED
    BY <1>2, <1>3, <1>4, <1>5, <1>6, <1>7, <1>8 DEF Next, Arrive, Resume, Cancel
<1> QED
  BY <1>1, <1>9 DEF LockInvariant, NoneTwice

(***************************************************************************)
(* Whoever cancels, a handler that works holds the lock of its session,    *)
(* and a use case runs without it only when its client has given it up     *)
(* (mcp_server.py:475).                                                    *)
(***************************************************************************)
THEOREM LockInvariantHolds == Spec => []LockInvariant
  BY LockInit, LocksAreKept, PTL DEF Spec
-----------------------------------------------------------------------------
(***************************************************************************)
(* The order of the log.                                                   *)
(***************************************************************************)
Began(d) == work[d] \in {"running", "ok", "error"}

LEMMA OrderInit == Init => OrderInvariant
  BY LockInit DEF Init, OrderInvariant, LogInOrder, OrderAt, Unrecorded

\* What no step does: revive a handler, take back a use case that has begun,
\* or move its call to another session.
OnlyForward ==
  \A d \in Calls : /\ pc'[d] # "ended" => pc[d] # "ended"
                   /\ Began(d) => /\ Began(d)' /\ session'[d] = session[d]
                                  /\ pc'[d] = "working" => pc[d] = "working"

LEMMA StepsGoForward == LockInvariant /\ [Next]_vars => OnlyForward
<1> SUFFICES ASSUME LockInvariant, [Next]_vars PROVE OnlyForward
  OBVIOUS
<1>0. TypeOK /\ \A d \in Calls : LockAt(d)
  BY DEF LockInvariant
<1> USE DEF OnlyForward, Began, Goto, TypeOK
<1>1. ASSUME NEW c \in Calls, ArriveBound(c) \/ ArriveGlobal(c) PROVE OnlyForward
  <2>1. PICK k \in Keys : pc[c] = "idle" /\ Enter(c, k, k)
    BY <1>1 DEF ArriveBound, ArriveGlobal, LockKey, Keys
  <2>2. /\ pc' \in {[pc EXCEPT ![c] = "working"], [pc EXCEPT ![c] = "waiting"]}
        /\ work' = work \/ work' = [work EXCEPT ![c] = "queued"]
        /\ session' = [session EXCEPT ![c] = k]
    BY <2>1 DEF Enter, Submit, threads
  <2>3. work[c] = "none"
    BY <1>0, <2>1 DEF LockAt
  <2> QED
    BY <1>0, <2>1, <2>2, <2>3
<1>2. ASSUME NEW c \in Calls, ResolveFails(c) \/ Refuse(c) PROVE OnlyForward
  BY <1>0, <1>2 DEF ResolveFails, Refuse, threads
<1>3. ASSUME NEW c \in Calls, Acquire(c) PROVE OnlyForward
  <2>1. /\ pc[c] = "waiting" /\ pc' = [pc EXCEPT ![c] = "working"] /\ UNCHANGED session
        /\ work' = [work EXCEPT ![c] = "queued"] /\ work[c] = "none"
    BY <1>0, <1>3 DEF Acquire, Submit, LockAt
  <2> QED
    BY <1>0, <2>1
<1>4. ASSUME NEW c \in Calls, Finish(c) \/ CancelWaiting(c) PROVE OnlyForward
  BY <1>0, <1>4 DEF Finish, CancelWaiting, threads
<1>5. ASSUME NEW c \in Calls, CancelWorking(c) PROVE OnlyForward
  BY <1>0, <1>5 DEF CancelWorking, threads
<1>6. ASSUME NEW c \in Calls, Begin(c) PROVE OnlyForward
  BY <1>0, <1>6 DEF Begin, handlers
<1>7. ASSUME NEW c \in Calls, End(c) PROVE OnlyForward
  BY <1>0, <1>7 DEF End, handlers
<1>8. CASE UNCHANGED vars
  BY <1>8 DEF vars, handlers, threads
<1> QED
  <2> HIDE DEF OnlyForward
  <2> QED
    BY <1>1, <1>2, <1>3, <1>4, <1>5, <1>6, <1>7, <1>8 DEF Next, Arrive, Resume, Cancel

\* Most steps neither record nor begin a use case.
LEMMA QuietKeepsOrder ==
  ASSUME OrderInvariant, OnlyForward, UNCHANGED <<log, started>>
  PROVE  LogInOrder' /\ \A d \in Calls : OrderAt(d)'
<1>1. LogInOrder'
  BY DEF OrderInvariant, LogInOrder
<1>2. ASSUME NEW d \in Calls PROVE OrderAt(d)'
  BY DEF OrderInvariant, OrderAt, OnlyForward, Began, Unrecorded
<1> QED
  BY <1>1, <1>2

\* The handler that ends is the last that began on its session, if its use
\* case began at all; its record comes last in the log.
LEMMA RecordKeepsOrder ==
  ASSUME OrderInvariant, OnlyForward, NEW c \in Calls, NEW k \in Keys, NEW code \in {0, 1},
         pc[c] # "ended", pc'[c] = "ended", UNCHANGED started,
         log' = [log EXCEPT ![k] = Append(@, [call |-> c, exit |-> code])]
  PROVE  LogInOrder' /\ \A d \in Calls : OrderAt(d)'
<1> DEFINE new == Len(log[k]) + 1
<1>0. /\ TypeOK /\ LogInOrder /\ OrderAt(c) /\ LockAt(c) /\ Unrecorded(c)
      /\ \A d \in Calls : OrderAt(d)
  BY DEF OrderInvariant, LockInvariant, OrderAt
<1>1. /\ \A l \in Keys \ {k} : log'[l] = log[l]
      /\ \A i \in DOMAIN log[k] : log'[k][i] = log[k][i] /\ i < new
      /\ log'[k][new].call = c
      /\ \A i \in DOMAIN log'[k] : i \in DOMAIN log[k] \/ i = new
  <2>1. log[k] \in Seq(Records) /\ [call |-> c, exit |-> code] \in Records
        /\ log'[k] = Append(log[k], [call |-> c, exit |-> code])
        /\ \A l \in Keys \ {k} : log'[l] = log[l]
    BY <1>0 DEF TypeOK, Records
  <2> QED
    BY <2>1, AppendOnce
<1> HIDE DEF new
<1>2. \A p \in DOMAIN started[k] : started[k][p] = c =>
        /\ p = Len(started[k]) /\ \A q \in DOMAIN started[k] : started[k][q] = c => q = p
  BY <1>0 DEF OrderAt, LockAt, TypeOK
<1>3. DOMAIN started[k] = 1 .. Len(started[k]) /\ Len(started[k]) \in Nat
  BY <1>0, LenProperties DEF TypeOK
<1>4. LogInOrder'
  <2>1. ASSUME NEW i \in DOMAIN log'[k], NEW j \in DOMAIN log'[k],
               NEW p \in DOMAIN started[k], NEW q \in DOMAIN started[k],
               started[k][p] = log'[k][i].call, started[k][q] = log'[k][j].call
        PROVE  i < j <=> p < q
    <3>1. i \in Int /\ j \in Int /\ new \in Int
      BY <1>0, <1>1, LenProperties DEF TypeOK, new
    <3>2. CASE i \in DOMAIN log[k] /\ j \in DOMAIN log[k]
      BY <1>0, <1>1, <2>1, <3>2 DEF LogInOrder
    <3>3. CASE i \in DOMAIN log[k] /\ j = new
      <4>1. started[k][p] # c /\ started[k][q] = c
        BY <1>0, <1>1, <2>1, <3>3 DEF Unrecorded
      <4> QED
        BY <1>1, <1>2, <1>3, <3>3, <4>1
    <3>4. CASE i = new /\ j \in DOMAIN log[k]
      <4>1. started[k][p] = c /\ started[k][q] # c
        BY <1>0, <1>1, <2>1, <3>4 DEF Unrecorded
      <4>2. p = Len(started[k]) /\ j < i
        BY <1>1, <1>2, <3>4, <4>1
      <4> QED
        BY <1>3, <3>1, <4>2
    <3>5. CASE i = new /\ j = new
      <4>1. p = q
        BY <1>1, <1>2, <2>1, <3>5
      <4> QED
        BY <1>3, <3>1, <3>5, <4>1
    <3> QED
      BY <1>1, <3>2, <3>3, <3>4, <3>5
  <2> QED
    BY <1>0, <1>1, <2>1 DEF LogInOrder
<1>5. ASSUME NEW d \in Calls PROVE OrderAt(d)'
  <2>1. pc'[d] # "ended" => Unrecorded(d)'
    BY <1>0, <1>1 DEF OrderAt, OnlyForward, Unrecorded
  <2> QED
    BY <1>0, <2>1 DEF OrderAt, OnlyForward, Began
<1> QED
  BY <1>4, <1>5

\* The call whose use case begins holds the lock of its session, so no other
\* handler works on that session; and it has not been recorded.
LEMMA BeginKeepsOrder ==
  ASSUME OrderInvariant, OnlyForward, NEW c \in Calls, Begin(c)
  PROVE  LogInOrder' /\ \A d \in Calls : OrderAt(d)'
<1> DEFINE k == session[c]
           new == Len(started[k]) + 1
<1>0. /\ TypeOK /\ LogInOrder /\ \A d \in Calls : OrderAt(d) /\ LockAt(d)
      /\ UNCHANGED <<handlers, log>> /\ k \in Keys
  BY DEF OrderInvariant, LockInvariant, Begin, TypeOK
<1>1. work[c] = "queued" /\ work'[c] = "running"
  <2>1. backlog \in Seq(Calls) /\ backlog # <<>> /\ Head(backlog) = c
        /\ work' = [work EXCEPT ![c] = "running"]
    BY <1>0 DEF Begin, TypeOK
  <2>2. InBacklog(c)
    BY <2>1, TailWithout DEF InBacklog
  <2> QED
    BY <1>0, <2>1, <2>2 DEF LockAt, TypeOK
<1>2. pc[c] = "working" /\ key[c] = k /\ owner[k] = c /\ Unrecorded(c)
  BY <1>0, <1>1 DEF LockAt, OrderAt
<1>3. /\ \A l \in Keys \ {k} : started'[l] = started[l]
      /\ \A p \in DOMAIN started[k] : p \in DOMAIN started'[k] /\ started'[k][p] = started[k][p]
      /\ started'[k][new] = c /\ Len(started'[k]) = new
      /\ \A p \in DOMAIN started'[k] : p \in DOMAIN started[k] \/ p = new
  <2>1. started[k] \in Seq(Calls) /\ started'[k] = Append(started[k], c)
        /\ \A l \in Keys \ {k} : started'[l] = started[l]
    BY <1>0 DEF Begin, TypeOK
  <2> QED
    BY <2>1, AppendOnce
<1>4. \A l \in Keys : \A p \in DOMAIN started[l] : started[l][p] # c
  BY <1>0, <1>1 DEF OrderAt
<1> HIDE DEF k, new
<1>5. LogInOrder'
  <2>1. ASSUME NEW l \in Keys, NEW i \in DOMAIN log[l], NEW p \in DOMAIN started'[l],
               started'[l][p] = log[l][i].call
        PROVE  p \in DOMAIN started[l] /\ started[l][p] = started'[l][p]
    BY <1>2, <1>3, <2>1 DEF Unrecorded
  <2> QED
    BY <1>0, <2>1 DEF LogInOrder
<1>6. ASSUME NEW d \in Calls PROVE OrderAt(d)'
  <2>1. pc'[d] = pc[d] /\ session'[d] = session[d] /\ Unrecorded(d)' = Unrecorded(d)
    BY <1>0 DEF handlers, Unrecorded
  <2>2. CASE d = c
    <3>1. ASSUME NEW l \in Keys, NEW p \in DOMAIN started'[l], started'[l][p] = c
          PROVE  l = k /\ p = new
      BY <1>3, <1>4, <3>1
    <3> QED
      BY <1>0, <1>1, <1>3, <2>1, <2>2, <3>1 DEF OrderAt, k
  <2>3. CASE d # c
    <3>1. ASSUME NEW l \in Keys, NEW p \in DOMAIN started'[l], started'[l][p] = d
          PROVE  p \in DOMAIN started[l] /\ started[l][p] = d
      BY <1>3, <2>3, <3>1
    <3>2. ASSUME NEW p \in DOMAIN started'[k], started'[k][p] = d PROVE pc[d] # "working"
      <4>1. p \in DOMAIN started[k] /\ started[k][p] = d
        BY <1>0, <3>1, <3>2 DEF k
      <4>2. session[d] = k
        BY <1>0, <4>1 DEF OrderAt, k
      <4> QED
        BY <1>0, <1>2, <2>3, <4>2 DEF LockAt
    <3>3. \A l \in Keys : l # k => Len(started'[l]) = Len(started[l])
      BY <1>3
    <3> QED
      BY <1>0, <2>1, <3>1, <3>2, <3>3 DEF OrderAt, OnlyForward, Began
  <2> QED
    BY <2>2, <2>3
<1> QED
  BY <1>5, <1>6

LEMMA OrderIsKept == OrderInvariant /\ [Next]_vars => OrderInvariant'
<1> SUFFICES ASSUME OrderInvariant, [Next]_vars PROVE OrderInvariant'
  OBVIOUS
<1>0. LockInvariant /\ LockInvariant' /\ OnlyForward /\ TypeOK
  BY LocksAreKept, StepsGoForward DEF OrderInvariant, LockInvariant
<1> DEFINE Kept == LogInOrder' /\ \A d \in Calls : OrderAt(d)'
<1>1. ASSUME UNCHANGED <<log, started>> PROVE Kept
  BY <1>0, <1>1, QuietKeepsOrder
<1>2. ASSUME NEW c \in Calls, Begin(c) PROVE Kept
  BY <1>0, <1>2, BeginKeepsOrder
<1>3. ASSUME NEW c \in Calls, ResolveFails(c) \/ Finish(c) \/ CancelWorking(c) PROVE Kept
  <2>1. /\ pc[c] # "ended" /\ pc'[c] = "ended" /\ UNCHANGED started
        /\ \E k \in Keys, code \in {0, 1} : Log(c, k, code)
    BY <1>0, <1>3 DEF ResolveFails, Finish, CancelWorking, Goto, TypeOK, Keys, threads
  <2>2. PICK k \in Keys, code \in {0, 1} : Log(c, k, code)
    BY <2>1
  <2>3. CASE UNCHANGED log
    BY <1>1, <2>1, <2>3
  <2>4. CASE log' = [log EXCEPT ![k] = Append(@, [call |-> c, exit |-> code])]
    BY <1>0, <2>1, <2>4, RecordKeepsOrder
  <2> QED
    BY <2>2, <2>3, <2>4 DEF Log
<1>4. ASSUME NEW c \in Calls,
             \/ ArriveBound(c) \/ ArriveGlobal(c) \/ Refuse(c)
             \/ Acquire(c) \/ CancelWaiting(c) \/ End(c)
      PROVE  UNCHANGED <<log, started>>
  BY <1>4 DEF ArriveBound, ArriveGlobal, Refuse, Acquire, CancelWaiting, End, Enter, Submit, threads
<1>5. ASSUME UNCHANGED vars PROVE Kept
  BY <1>5, <1>1 DEF vars, threads
<1>6. Kept
  <2> HIDE DEF Kept
  <2>1. CASE UNCHANGED <<log, started>>
    BY <1>1, <2>1
  <2> QED
    BY <1>2, <1>3, <1>4, <1>5, <2>1 DEF Next, Arrive, Resume, Cancel
<1> QED
  BY <1>0, <1>6 DEF OrderInvariant

(***************************************************************************)
(* The log of a session lists its calls in the order in which their use    *)
(* cases began, whatever is cancelled and whatever appends fail: a record  *)
(* is written before the lock is left (mcp_server.py:505), and no use case *)
(* begins without the lock.                                                *)
(***************************************************************************)
THEOREM LogKeepsOrder == Spec => []LogInOrder
<1>1. Spec => []OrderInvariant
  BY OrderInit, OrderIsKept, PTL DEF Spec
<1>2. OrderInvariant => LogInOrder
  BY DEF OrderInvariant
<1> QED
  BY <1>1, <1>2, PTL
-----------------------------------------------------------------------------
(***************************************************************************)
(* The handlers are a serial server.  A lock's line is the call that holds *)
(* it and, behind it, those that wait.                                     *)
(***************************************************************************)
Line(k) == (IF owner[k] = Nobody THEN <<>> ELSE <<owner[k]>>) \o waiters[k]

LEMMA FirstInLine ==
  ASSUME NEW S, NEW c \in S, NEW w \in Seq(S)
  PROVE  <<c>> \o w # <<>> /\ Head(<<c>> \o w) = c /\ Tail(<<c>> \o w) = w
<1> DEFINE q == <<c>> \o w
<1>1. <<c>> \in Seq(S) /\ Len(<<c>>) = 1 /\ <<c>>[1] = c
  OBVIOUS
<1>2. /\ q \in Seq(S) /\ Len(q) = 1 + Len(w) /\ Len(w) \in Nat
      /\ \A i \in 1 .. 1 + Len(w) : q[i] = IF i <= 1 THEN <<c>>[i] ELSE w[i - 1]
  BY <1>1, ConcatProperties, LenProperties
<1> HIDE DEF q
<1>3. q # <<>>
  BY <1>2, EmptySeq
<1>4. Head(q) = c
  BY <1>1, <1>2, <1>3
<1>5. /\ Tail(q) \in Seq(S) /\ Len(Tail(q)) = Len(w)
      /\ \A i \in 1 .. Len(w) : Tail(q)[i] = w[i]
  BY <1>2, <1>3, HeadTailProperties
<1>6. Tail(q) = w
  BY <1>5, SeqEqual
<1> QED
  BY <1>3, <1>4, <1>6 DEF q

LEMMA LastInLine ==
  ASSUME NEW S, NEW c \in S, NEW p \in Seq(S), NEW w \in Seq(S)
  PROVE  p \o Append(w, c) = Append(p \o w, c)
<1>1. <<c>> \in Seq(S) /\ p \o w \in Seq(S)
  BY ConcatProperties
<1>2. Append(w, c) = w \o <<c>> /\ Append(p \o w, c) = (p \o w) \o <<c>>
  BY <1>1, AppendIsConcat
<1> QED
  BY <1>1, <1>2, ConcatAssociative

\* Who gets the lock was the first of those who waited.
LEMMA StillFirst ==
  ASSUME NEW S, NEW w \in Seq(S), w # <<>>
  PROVE  <<Head(w)>> \o Tail(w) = w
<1> DEFINE h == Head(w)
           t == Tail(w)
           q == <<h>> \o t
<1>1. h \in S /\ t \in Seq(S) /\ Len(t) = Len(w) - 1 /\ \A i \in 1 .. Len(t) : t[i] = w[i + 1]
  BY HeadTailProperties
<1>2. Len(w) \in Nat \ {0} /\ h = w[1]
  BY EmptySeq
<1> HIDE DEF h, t
<1>3. /\ q \in Seq(S) /\ Len(q) = 1 + Len(t) /\ Len(t) \in Nat
      /\ \A i \in 1 .. 1 + Len(t) : q[i] = IF i <= 1 THEN h ELSE t[i - 1]
  <2>1. <<h>> \in Seq(S) /\ Len(<<h>>) = 1 /\ \A i \in 1 .. 1 : <<h>>[i] = h
    BY <1>1
  <2>2. /\ q \in Seq(S) /\ Len(q) = Len(<<h>>) + Len(t)
        /\ \A i \in 1 .. Len(<<h>>) + Len(t) :
             q[i] = IF i <= Len(<<h>>) THEN <<h>>[i] ELSE t[i - Len(<<h>>)]
    BY <1>1, <2>1, ConcatProperties
  <2>3. Len(t) \in Nat
    BY <1>1, LenProperties
  <2> QED
    BY <2>1, <2>2, <2>3
<1> HIDE DEF q
<1>4. Len(q) = Len(w) /\ \A i \in 1 .. Len(q) : q[i] = w[i]
  BY <1>1, <1>2, <1>3
<1>5. q = w
  BY <1>3, <1>4, SeqEqual
<1> QED
  BY <1>5 DEF q, h, t

\* A step maps to one of the serial server or to none.
Promised == [Promise!Next]_(Promise!vars)

\* What the serial server lets a step do to a call and to the line of its key.
PromisedMove(c, k) ==
  \/ Stage(c)' = Stage(c) /\ Line(k)' = Line(k)
  \/ Stage(c) = "new" /\ Stage(c)' = "answered" /\ Line(k)' = Line(k)
  \/ Stage(c) = "new" /\ Stage(c)' = "accepted" /\ Line(k)' = Append(Line(k), c)
  \/ /\ Line(k) # <<>> /\ Head(Line(k)) = c
     /\ \/ Stage(c) = "accepted" /\ Stage(c)' = "running" /\ Line(k)' = Line(k)
        \/ Stage(c) = "running" /\ Stage(c)' = "ran" /\ Line(k)' = Line(k)
        \/ Stage(c) = "ran" /\ Stage(c)' = "answered" /\ Line(k)' = Tail(Line(k))

LEMMA MoveIsPromised ==
  ASSUME NEW c \in Calls, NEW k \in Keys, PromisedMove(c, k),
         \A d \in Calls \ {c} : Stage(d)' = Stage(d),
         \A l \in Keys \ {k} : Line(l)' = Line(l)
  PROVE  Promised
<1> DEFINE stages == [d \in Calls |-> Stage(d)]
           lines == [l \in Keys |-> Line(l)]
<1>1. /\ stages' = [stages EXCEPT ![c] = Stage(c)'] /\ stages[c] = Stage(c)
      /\ lines' = [lines EXCEPT ![k] = Line(k)'] /\ lines[k] = Line(k)
  OBVIOUS
<1>2. Stage(c)' = Stage(c) => stages' = stages
  BY <1>1
<1>3. Line(k)' = Line(k) => lines' = lines
  BY <1>1
<1>4. CASE Stage(c)' = Stage(c) /\ Line(k)' = Line(k)
  <2>1. Promise!vars' = Promise!vars
    BY <1>2, <1>3, <1>4 DEF Promise!vars, Line
  <2> QED
    BY <2>1 DEF Promised
<1>5. CASE Stage(c) = "new" /\ Stage(c)' = "answered" /\ Line(k)' = Line(k)
  <2>1. Promise!Refuse(c)
    BY <1>1, <1>3, <1>5 DEF Promise!Refuse, Promise!Becomes, Line
  <2> QED
    BY <2>1 DEF Promised, Promise!Next
<1>6. CASE Stage(c) = "new" /\ Stage(c)' = "accepted" /\ Line(k)' = Append(Line(k), c)
  <2>1. Promise!Accept(c, k)
    BY <1>1, <1>6 DEF Promise!Accept, Promise!Becomes, Line
  <2> QED
    BY <2>1 DEF Promised, Promise!Next
<1>7. CASE Line(k) # <<>> /\ Head(Line(k)) = c /\ Line(k)' = Line(k)
           /\ Stage(c) = "accepted" /\ Stage(c)' = "running"
  <2>1. Promise!Begin(c, k)
    BY <1>1, <1>3, <1>7 DEF Promise!Begin, Promise!IsNext, Promise!Becomes, Line
  <2> QED
    BY <2>1 DEF Promised, Promise!Next
<1>8. CASE Line(k) # <<>> /\ Head(Line(k)) = c /\ Line(k)' = Line(k)
           /\ Stage(c) = "running" /\ Stage(c)' = "ran"
  <2>1. Promise!End(c, k)
    BY <1>1, <1>3, <1>8 DEF Promise!End, Promise!IsNext, Promise!Becomes, Line
  <2> QED
    BY <2>1 DEF Promised, Promise!Next
<1>9. CASE Line(k) # <<>> /\ Head(Line(k)) = c /\ Line(k)' = Tail(Line(k))
            /\ Stage(c) = "ran" /\ Stage(c)' = "answered"
  <2>1. Promise!Answer(c, k)
    BY <1>1, <1>9 DEF Promise!Answer, Promise!IsNext, Promise!Becomes, Line
  <2> QED
    BY <2>1 DEF Promised, Promise!Next
<1> QED
  BY <1>4, <1>5, <1>6, <1>7, <1>8, <1>9 DEF PromisedMove

LEMMA InitServes == Init => Promise!Init
<1> SUFFICES ASSUME Init PROVE Promise!Init
  OBVIOUS
<1>1. \A c \in Calls : Stage(c) = "new"
  BY DEF Init, Stage
<1>2. \A k \in Keys : Line(k) = <<>>
  <2>1. <<>> \o <<>> = <<>>
    BY EmptySeq, ConcatEmptySeq
  <2> QED
    BY <2>1 DEF Init, Line
<1> QED
  BY <1>1, <1>2 DEF Promise!Init, Line

\* A handler that arrives comes last in the line of its lock.
LEMMA EnterServes ==
  ASSUME DispatchInvariant, NEW c \in Calls, NEW k \in Keys, pc[c] = "idle", Enter(c, k, k)
  PROVE  Promised
<1> USE DEF Enter, Goto
<1>0. TypeOK /\ CallAt(c) /\ waiters[k] \in Seq(Calls) /\ c # Nobody
  BY NobodyAssumption DEF DispatchInvariant, TypeOK
<1>1. CASE owner[k] = Nobody /\ waiters[k] = <<>>
  <2>1. /\ pc' = [pc EXCEPT ![c] = "working"] /\ work' = [work EXCEPT ![c] = "queued"]
        /\ owner' = [owner EXCEPT ![k] = c] /\ UNCHANGED waiters
    BY <1>1 DEF Submit
  <2>2. Stage(c) = "new" /\ Stage(c)' = "accepted"
        /\ \A d \in Calls \ {c} : Stage(d)' = Stage(d)
    BY <1>0, <2>1 DEF Stage, TypeOK
  <2>3. \A l \in Keys \ {k} : Line(l)' = Line(l)
    BY <1>0, <2>1 DEF Line, TypeOK
  <2>4. Line(k) = <<>> /\ Line(k)' = <<c>>
    <3>1. <<>> \in Seq(Calls) /\ <<c>> \in Seq(Calls)
      OBVIOUS
    <3>2. <<>> \o <<>> = <<>> /\ <<c>> \o <<>> = <<c>>
      BY <3>1, ConcatEmptySeq
    <3> QED
      BY <1>0, <1>1, <2>1, <3>2 DEF Line, TypeOK
  <2>5. Append(<<>>, c) = <<c>>
    OBVIOUS
  <2>6. PromisedMove(c, k)
    BY <2>2, <2>4, <2>5 DEF PromisedMove
  <2> QED
    BY <2>2, <2>3, <2>6, MoveIsPromised
<1>2. CASE ~ (owner[k] = Nobody /\ waiters[k] = <<>>)
  <2>1. /\ pc' = [pc EXCEPT ![c] = "waiting"] /\ UNCHANGED <<work, owner>>
        /\ waiters' = [waiters EXCEPT ![k] = Append(waiters[k], c)]
    BY <1>2 DEF threads
  <2>2. Stage(c) = "new" /\ Stage(c)' = "accepted"
        /\ \A d \in Calls \ {c} : Stage(d)' = Stage(d)
    BY <1>0, <2>1 DEF Stage, TypeOK
  <2>3. \A l \in Keys \ {k} : Line(l)' = Line(l)
    BY <1>0, <2>1 DEF Line, TypeOK
  <2>4. Line(k)' = Append(Line(k), c)
    <3> DEFINE p == IF owner[k] = Nobody THEN <<>> ELSE <<owner[k]>>
    <3>1. p \in Seq(Calls)
      BY <1>0 DEF TypeOK
    <3>2. Line(k) = p \o waiters[k] /\ Line(k)' = p \o Append(waiters[k], c)
      BY <1>0, <2>1 DEF Line, TypeOK
    <3> HIDE DEF p
    <3> QED
      BY <1>0, <3>1, <3>2, LastInLine
  <2>5. PromisedMove(c, k)
    BY <2>2, <2>4 DEF PromisedMove
  <2> QED
    BY <2>2, <2>3, <2>5, MoveIsPromised
<1> QED
  BY <1>1, <1>2

LEMMA NextServes ==
  ASSUME "cancel" \notin Faults, DispatchInvariant, [Next]_vars
  PROVE  Promised
<1>0. TypeOK /\ (\A c \in Calls : CallAt(c)) /\ Nobody \notin Calls
  BY NobodyAssumption DEF DispatchInvariant
\* The call that holds the lock of its key is the first in line.
<1>1. ASSUME NEW c \in Calls, HoldsLock(c)
      PROVE  /\ key[c] \in Keys /\ Line(key[c]) = <<c>> \o waiters[key[c]]
             /\ Line(key[c]) # <<>> /\ Head(Line(key[c])) = c
             /\ Tail(Line(key[c])) = waiters[key[c]]
  <2>1. key[c] \in Keys /\ waiters[key[c]] \in Seq(Calls)
        /\ Line(key[c]) = <<c>> \o waiters[key[c]]
    BY <1>0, <1>1 DEF HoldsLock, Line, TypeOK
  <2> QED
    BY <2>1, FirstInLine
<1>2. ASSUME NEW c \in Calls, ArriveBound(c) \/ ArriveGlobal(c) PROVE Promised
  BY <1>2, EnterServes DEF ArriveBound, ArriveGlobal, LockKey, Keys
<1>3. ASSUME NEW c \in Calls, ResolveFails(c) \/ Refuse(c) PROVE Promised
  <2>1. pc[c] = "idle" /\ pc' = [pc EXCEPT ![c] = "ended"] /\ UNCHANGED <<work, owner, waiters>>
    BY <1>3 DEF ResolveFails, Refuse, Goto, locks, threads
  <2>2. Stage(c) = "new" /\ Stage(c)' = "answered"
        /\ \A d \in Calls \ {c} : Stage(d)' = Stage(d)
    BY <1>0, <2>1 DEF Stage, TypeOK
  <2>3. \A l \in Keys : Line(l)' = Line(l)
    BY <2>1 DEF Line
  <2>4. Global \in Keys /\ PromisedMove(c, Global)
    BY <2>2, <2>3 DEF PromisedMove, Keys
  <2> QED
    BY <2>2, <2>3, <2>4, MoveIsPromised
<1>4. ASSUME NEW c \in Calls, Acquire(c) PROVE Promised
  <2>1. PICK k \in Keys : k = key[c]
    BY <1>0 DEF TypeOK
  <2>2. /\ pc[c] = "waiting" /\ pc' = [pc EXCEPT ![c] = "working"]
        /\ work' = [work EXCEPT ![c] = "queued"] /\ work[c] = "none"
        /\ owner[k] = Nobody /\ owner' = [owner EXCEPT ![k] = c]
        /\ waiters[k] \in Seq(Calls) /\ waiters[k] # <<>> /\ Head(waiters[k]) = c
        /\ waiters' = [waiters EXCEPT ![k] = Tail(waiters[k])]
    BY <1>0, <1>4, <2>1 DEF Acquire, Goto, Submit, CallAt, TypeOK
  <2>3. Stage(c) = "accepted" /\ \A d \in Calls : Stage(d)' = Stage(d)
    BY <1>0, <2>2 DEF Stage, TypeOK
  <2>4. \A l \in Keys \ {k} : Line(l)' = Line(l)
    BY <1>0, <2>2 DEF Line, TypeOK
  <2>5. Line(k) = waiters[k] /\ Line(k)' = <<c>> \o Tail(waiters[k])
    <3>1. <<>> \o waiters[k] = waiters[k]
      BY <2>2, ConcatEmptySeq
    <3>2. owner'[k] = c /\ waiters'[k] = Tail(waiters[k]) /\ c # Nobody
      BY <1>0, <2>2 DEF TypeOK
    <3> QED
      BY <2>2, <3>1, <3>2 DEF Line
  <2>6. Line(k)' = Line(k)
    BY <2>2, <2>5, StillFirst
  <2>7. PromisedMove(c, k)
    BY <2>3, <2>6 DEF PromisedMove
  <2> QED
    BY <2>3, <2>4, <2>7, MoveIsPromised
<1>5. ASSUME NEW c \in Calls, Finish(c) PROVE Promised
  <2>1. PICK k \in Keys : k = key[c]
    BY <1>0 DEF TypeOK
  <2>2. /\ pc[c] = "working" /\ pc' = [pc EXCEPT ![c] = "ended"] /\ UNCHANGED <<work, waiters>>
        /\ work[c] \in {"ok", "error"} /\ owner' = [owner EXCEPT ![k] = Nobody]
    BY <1>5, <2>1 DEF Finish, Release, Goto, threads
  <2>3. Stage(c) = "ran" /\ Stage(c)' = "answered"
        /\ \A d \in Calls \ {c} : Stage(d)' = Stage(d)
    BY <1>0, <2>2 DEF Stage, TypeOK
  <2>4. \A l \in Keys \ {k} : Line(l)' = Line(l)
    BY <1>0, <2>2 DEF Line, TypeOK
  <2>5. waiters[k] \in Seq(Calls) /\ Line(k) = <<c>> \o waiters[k]
    BY <1>0, <2>1, <2>2 DEF CallAt, TypeOK, Line
  <2>6. Line(k)' = waiters[k]
    <3>1. owner'[k] = Nobody /\ waiters'[k] = waiters[k]
      BY <1>0, <2>2 DEF TypeOK
    <3>2. <<>> \o waiters[k] = waiters[k]
      BY <2>5, ConcatEmptySeq
    <3> QED
      BY <3>1, <3>2 DEF Line
  <2>7. Line(k) # <<>> /\ Head(Line(k)) = c /\ Tail(Line(k)) = waiters[k]
    BY <2>5, FirstInLine
  <2>8. PromisedMove(c, k)
    BY <2>3, <2>6, <2>7 DEF PromisedMove
  <2> QED
    BY <2>3, <2>4, <2>8, MoveIsPromised
<1>6. ASSUME NEW c \in Calls, Begin(c) PROVE Promised
  <2>1. /\ UNCHANGED <<pc, key, owner, waiters>> /\ work' = [work EXCEPT ![c] = "running"]
        /\ backlog \in Seq(Calls) /\ backlog # <<>> /\ Head(backlog) = c
    BY <1>0, <1>6 DEF Begin, handlers, locks, TypeOK
  <2>2. work[c] = "queued" /\ HoldsLock(c)
    <3>1. InBacklog(c)
      BY <2>1, TailWithout DEF InBacklog
    <3> QED
      BY <1>0, <3>1 DEF CallAt
  <2>3. Stage(c) = "accepted" /\ Stage(c)' = "running"
        /\ \A d \in Calls \ {c} : Stage(d)' = Stage(d)
    BY <1>0, <2>1, <2>2 DEF Stage, TypeOK, HoldsLock
  <2>4. \A l \in Keys : Line(l)' = Line(l)
    BY <2>1 DEF Line
  <2>5. \E k \in Keys : PromisedMove(c, k)
    BY <1>1, <2>2, <2>3, <2>4 DEF PromisedMove
  <2> QED
    BY <2>3, <2>4, <2>5, MoveIsPromised
<1>7. ASSUME NEW c \in Calls, End(c) PROVE Promised
  <2>1. /\ UNCHANGED <<pc, key, owner, waiters>> /\ work[c] = "running" /\ HoldsLock(c)
        /\ \E result \in {"ok", "error"} : work' = [work EXCEPT ![c] = result]
    BY <1>0, <1>7 DEF End, handlers, locks, CallAt
  <2>2. Stage(c) = "running" /\ Stage(c)' = "ran"
        /\ \A d \in Calls \ {c} : Stage(d)' = Stage(d)
    BY <1>0, <2>1 DEF Stage, TypeOK, HoldsLock
  <2>3. \A l \in Keys : Line(l)' = Line(l)
    BY <2>1 DEF Line
  <2>4. \E k \in Keys : PromisedMove(c, k)
    BY <1>1, <2>1, <2>2, <2>3 DEF PromisedMove
  <2> QED
    BY <2>2, <2>3, <2>4, MoveIsPromised
<1>8. ASSUME UNCHANGED vars PROVE Promised
  <2>1. UNCHANGED <<pc, work, owner, waiters>>
    BY <1>8 DEF vars, handlers, locks, threads
  <2>2. (\A c \in Calls : Stage(c)' = Stage(c)) /\ (\A k \in Keys : Line(k)' = Line(k))
    BY <2>1 DEF Stage, Line
  <2>3. Promise!vars' = Promise!vars
    BY <2>2 DEF Promise!vars, Line
  <2> QED
    BY <2>3 DEF Promised
<1>9. ASSUME NEW c \in Calls PROVE ~ Cancel(c)
  BY DEF Cancel, CancelWaiting, CancelWorking
<1> QED
  BY <1>2, <1>3, <1>4, <1>5, <1>6, <1>7, <1>8, <1>9 DEF Next, Arrive, Resume

(***************************************************************************)
(* While no client cancels, the event loop, its locks and its threads      *)
(* implement SerialServer: the calls of a key are served one after the     *)
(* other, in the order in which they arrived.                              *)
(***************************************************************************)
THEOREM DispatchIsSerial == "cancel" \notin Faults => (Spec => KeepsOrder)
<1> SUFFICES ASSUME "cancel" \notin Faults PROVE Spec => KeepsOrder
  OBVIOUS
<1>1. Spec => []DispatchInvariant
  BY DispatchInvariantHolds
<1>2. DispatchInvariant /\ [Next]_vars => [Promise!Next]_(Promise!vars)
  BY NextServes DEF Promised
<1> QED
  BY <1>1, <1>2, InitServes, PTL DEF Spec, KeepsOrder, Promise!Spec

-----------------------------------------------------------------------------
(***************************************************************************)
(* The served sessions.  Every step of ServedSessions is one of            *)
(* McpDispatch or leaves its variables alone.                              *)
(***************************************************************************)
LEMMA ServedDispatches == [ServedNext]_allVars => [Next]_vars
<1> SUFFICES ASSUME [ServedNext]_allVars PROVE [Next]_vars
  OBVIOUS
<1>1. ASSUME NEW c \in Calls, ArriveServed(c) PROVE Next
  <2>1. Arrive(c)
    BY <1>1 DEF ArriveServed, ArriveOn, ArriveToStart, NoneActive, Arrive
  <2> QED
    BY <2>1 DEF Next
<1>2. ASSUME NEW c \in Calls, Dispatched(c) PROVE Next
  BY <1>2 DEF Dispatched, Next, Resume, Cancel
<1>3. ASSUME NEW c \in Calls, UseCase(c) PROVE Next \/ UNCHANGED vars
  <2>1. End(c) \/ UNCHANGED vars
    BY <1>3 DEF UseCase, Drive, KillApp, KillXvfb, Probe, Spawn, EndWork
  <2> QED
    BY <2>1 DEF Next
<1>4. ASSUME NEW s \in Sessions, Dies(s) PROVE UNCHANGED vars
  BY <1>4 DEF Dies
<1>5. CASE UNCHANGED allVars
  BY <1>5 DEF allVars
<1> QED
  BY <1>1, <1>2, <1>3, <1>4, <1>5 DEF ServedNext

(***************************************************************************)
(* What holds of the dispatcher holds of the server with its sessions; in  *)
(* particular the log of a session keeps the order of its use cases.       *)
(***************************************************************************)
THEOREM ServedDispatch == ServedSpec => Spec
<1>1. ServedInit => Init
  BY DEF ServedInit
<1> QED
  BY <1>1, ServedDispatches, PTL DEF ServedSpec, Spec

\* The log of a session keeps the order in which its use cases ran, when they
\* are those of ServedSessions.
THEOREM ServedLogKeepsOrder == ServedSpec => []LogInOrder
  BY ServedDispatch, LogKeepsOrder, PTL

(***************************************************************************)
(* Sets and lines.                                                         *)
(***************************************************************************)
\* The lowest display without a server is a display.
LEMMA LowestIsThere ==
  ASSUME NEW D \in SUBSET Nat, D # {}
  PROVE  Min(D) \in D
<1>1. PICK m \in D : \A n \in D : ~ (<<n, m>> \in OpToRel(<, Nat))
  BY NatLessThanWellFounded, WFMin
<1>2. m \in Nat /\ \A n \in D : n \in Nat /\ ~ (n < m)
  BY <1>1 DEF OpToRel
<1>3. \A n \in D : m <= n
  BY <1>2
<1> QED
  BY <1>3 DEF Min

\* Whoever is in line waits, and for the lock of its session.
LEMMA WhoWaits ==
  ASSUME LockInvariant, NEW c \in Calls, NEW k \in Keys, InLine(c, k)
  PROVE  pc[c] = "waiting" /\ session[c] = k
  BY DEF LockInvariant, LockAt

LEMMA AppendKeepsBefore ==
  ASSUME TypeOK, NEW c \in Calls, NEW k \in Keys,
         waiters' = [waiters EXCEPT ![k] = Append(@, c)],
         NEW d, NEW e, NEW l \in Keys, Before(e, d, l)'
  PROVE  Before(e, d, l) \/ (d = c /\ l = k /\ InLine(e, k))
<1>1. CASE l # k
  BY <1>1 DEF TypeOK, Before
<1>2. CASE l = k
  <2>1. waiters[k] \in Seq(Calls) /\ waiters'[k] = Append(waiters[k], c)
    BY DEF TypeOK
  <2>2. /\ Len(waiters[k]) \in Nat
        /\ \A i \in DOMAIN waiters[k] : waiters'[k][i] = waiters[k][i] /\ i <= Len(waiters[k])
        /\ waiters'[k][Len(waiters[k]) + 1] = c
        /\ \A i \in DOMAIN waiters'[k] : i \in DOMAIN waiters[k] \/ i = Len(waiters[k]) + 1
    BY <2>1, AppendOnce
  <2>3. PICK i \in DOMAIN waiters'[k], j \in DOMAIN waiters'[k] :
          i < j /\ waiters'[k][i] = e /\ waiters'[k][j] = d
    BY <1>2 DEF Before
  <2>4. i \in Nat /\ j \in Nat
    BY <2>1, <2>2, LenProperties
  <2>5. i \in DOMAIN waiters[k]
    BY <2>2, <2>3, <2>4, LenProperties, <2>1
  <2> QED
    BY <1>2, <2>2, <2>3, <2>5 DEF Before, InLine
<1> QED
  BY <1>1, <1>2

LEMMA WithoutKeepsBefore ==
  ASSUME NEW k \in Keys, NEW i \in DOMAIN waiters[k], Without(waiters[k], i, waiters'[k]),
         \A l \in Keys \ {k} : waiters'[l] = waiters[l],
         NEW d, NEW e, NEW l \in Keys, Before(e, d, l)'
  PROVE  Before(e, d, l)
<1>1. CASE l # k
  BY <1>1 DEF Before
<1>2. CASE l = k
  BY <1>2 DEF Before, Without
<1> QED
  BY <1>1, <1>2

(***************************************************************************)
(* Type correctness.                                                       *)
(***************************************************************************)
LEMMA ServedNextType ==
  ASSUME ServedInvariant, [ServedNext]_allVars
  PROVE  ServedTypeOK'
<1>0. TypeOK' /\ ServedTypeOK /\ TypeOK /\ \A c \in Calls : StepAt(c)
  BY ServedDispatches, DispatchNextType DEF ServedInvariant, ServedTypeOK
<1> DEFINE Rest == /\ tool' \in [Calls -> {"none", "use", "stop", "start"}]
                   /\ at' \in [Calls -> {"begun", "failed", "driven", "half", "stopped",
                                         "probed", "started"}]
                   /\ chosen' \in [Calls -> [session : Keys, display : Displays \cup {0}]]
                   /\ born' \in Seq(Sessions)
                   /\ display' \in [Sessions -> Displays \cup {0}]
                   /\ alive' \in [Sessions -> SUBSET Whole]
                   /\ hit' \in [Calls -> SUBSET Sessions]
                   /\ due' \in [Calls -> BOOLEAN] /\ sole' \in [Calls -> BOOLEAN]
                   /\ lost' \subseteq Sessions
<1> USE <1>0 DEF ServedTypeOK, work_, sessions, remarks
<1>1. ASSUME NEW c \in Calls, ArriveOn(c, "use") \/ ArriveOn(c, "stop") PROVE Rest
  BY <1>1 DEF ArriveOn
<1>2. ASSUME NEW c \in Calls, ArriveToStart(c) PROVE Rest
  BY <1>2 DEF ArriveToStart
<1>3. ASSUME UNCHANGED served PROVE Rest
  BY <1>3 DEF served
<1>4. ASSUME NEW c \in Calls, Drive(c) PROVE Rest
  <2>1. Shown(display[session[c]]) \subseteq Sessions
    BY DEF Shown
  <2> QED
    BY <1>4, <2>1 DEF Drive, Reaches
<1>5. ASSUME NEW c \in Calls, KillApp(c) \/ KillXvfb(c) PROVE Rest
  <2>1. alive' \in [Sessions -> SUBSET Whole]
    BY <1>5 DEF KillApp, KillXvfb
  <2> QED
    BY <1>5, <2>1 DEF KillApp, KillXvfb, Reaches
<1>6. ASSUME NEW c \in Calls, Probe(c) PROVE Rest
  <2> DEFINE free == {d \in Displays : Shown(d) = {}}
  <2>1. free # {} => Min(free) \in Displays
    <3>1. free \in SUBSET Nat
      BY ServedAssumption
    <3> QED
      BY <3>1, LowestIsThere
  <2>2. \/ UNCHANGED chosen
        \/ /\ free # {}
           /\ \E s \in Sessions : chosen' = [chosen EXCEPT ![c] = [session |-> s, display |-> Min(free)]]
    BY <1>6 DEF Probe
  <2> HIDE DEF free
  <2>3. chosen' \in [Calls -> [session : Keys, display : Displays \cup {0}]]
    BY <2>1, <2>2 DEF Keys
  <2> QED
    BY <1>6, <2>3 DEF Probe, Reaches
<1>7. ASSUME NEW c \in Calls, Spawn(c) PROVE Rest
  <2>1. chosen[c].session \in Sessions /\ chosen[c].display \in Displays \cup {0}
    BY <1>7 DEF Spawn, StepAt
  <2>2. Append(born, chosen[c].session) \in Seq(Sessions)
    BY <2>1, AppendProperties
  <2> QED
    BY <1>7, <2>1, <2>2 DEF Spawn, Reaches
<1>8. ASSUME NEW s \in Sessions, Dies(s) PROVE Rest
  BY <1>8 DEF Dies
<1>9. ASSUME UNCHANGED allVars PROVE Rest
  BY <1>3, <1>9 DEF allVars
<1>10. Rest
  <2> HIDE DEF Rest
  <2> QED
    BY <1>1, <1>2, <1>3, <1>4, <1>5, <1>6, <1>7, <1>8, <1>9
    DEF ServedNext, ArriveServed, NoneActive, Dispatched, UseCase, EndWork
<1> QED
  BY <1>0, <1>10

(***************************************************************************)
(* The inductive invariant.                                                *)
(***************************************************************************)
LEMMA ServedInitInvariant == ServedInit => ServedInvariant
<1> SUFFICES ASSUME ServedInit PROVE ServedInvariant
  OBVIOUS
<1>1. LockInvariant /\ TypeOK
  BY LockInit DEF ServedInit, LockInvariant
<1>2. PICK s \in Sessions, d \in Displays :
        /\ born = <<s>>
        /\ display = [t \in Sessions |-> IF t = s THEN d ELSE 0]
        /\ alive = [t \in Sessions |-> IF t = s THEN Whole ELSE {}]
  BY DEF ServedInit
<1>3. born \in Seq(Sessions)
  BY <1>2
<1>4. ServedTypeOK
  BY <1>1, <1>2, <1>3 DEF ServedInit, ServedTypeOK, NoStart, Keys
<1>5. DisplaysApart /\ StartsApart /\ DueIsServed
  BY <1>2 DEF ServedInit, DisplaysApart, StartsApart, DueIsServed
<1>6. \A c \in Calls : StepAt(c)
  BY DEF ServedInit, StepAt, Owed
<1> QED
  BY <1>1, <1>4, <1>5, <1>6 DEF ServedInvariant

ServedKept ==
  /\ \A c \in Calls : StepAt(c)'
  /\ DisplaysApart' /\ StartsApart' /\ DueIsServed'

\* Most steps of the dispatcher leave the sessions and the use cases alone.
LEMMA QuietKeepsServed ==
  ASSUME ServedInvariant, UNCHANGED <<at, chosen, born, display, alive, hit, lost>>,
         \A c \in Calls :
           /\ pc'[c] \in {"idle", "waiting"} => pc[c] \in {"idle", "waiting"}
           /\ \/ pc[c] = "idle"
              \/ /\ due'[c] = due[c] /\ tool'[c] = tool[c] /\ session'[c] = session[c]
                 /\ reply[c] = "cancelled" => reply'[c] = "cancelled"
           /\ Owed(c)' => session'[c] \in Active /\ ~StopAhead(c)'
  PROVE  ServedKept
<1>0. /\ \A c \in Calls : StepAt(c)
      /\ DisplaysApart /\ StartsApart /\ DueIsServed
  BY DEF ServedInvariant
<1>1. DisplaysApart' /\ StartsApart'
  BY <1>0 DEF DisplaysApart, StartsApart
<1>2. Active' = Active
  BY DEF Active
<1>3. ASSUME NEW c \in Calls PROVE StepAt(c)'
  BY <1>0, <1>2 DEF StepAt
<1>4. DueIsServed'
  <2> SUFFICES ASSUME NEW c \in Calls, due'[c], tool'[c] = "use", reply'[c] # "cancelled",
                      session'[c] \notin lost'
               PROVE  at'[c] # "failed" /\ hit'[c] \subseteq {session'[c]}
    BY DEF DueIsServed
  <2>1. CASE pc[c] = "idle"
    BY <1>0, <2>1 DEF StepAt
  <2>2. CASE pc[c] # "idle"
    BY <1>0, <2>2 DEF DueIsServed
  <2> QED
    BY <2>1, <2>2
<1> QED
  BY <1>1, <1>3, <1>4 DEF ServedKept

\* A step that lets no stop pass a call keeps what is owed to the call.
LEMMA NoNewStops ==
  ASSUME ServedInvariant, UNCHANGED <<session, served>>,
         \A c \in Calls :
           /\ pc'[c] \in {"idle", "waiting"} => pc[c] \in {"idle", "waiting"}
           /\ pc'[c] = "working" => pc[c] = "working"
           /\ pc'[c] = "waiting" => pc[c] = "waiting"
           /\ work'[c] = "running" => work[c] = "running" \/ pc[c] = "working"
           /\ reply[c] = "cancelled" => reply'[c] = "cancelled",
         \A c, d \in Calls, k \in Keys : Before(d, c, k)' => Before(d, c, k)
  PROVE  ServedKept
<1>1. ASSUME NEW c \in Calls, Owed(c)' PROVE session'[c] \in Active /\ ~StopAhead(c)'
  <2>1. Owed(c) /\ session[c] \in Keys
    BY <1>1 DEF Owed, served, work_, remarks, ServedInvariant, ServedTypeOK, TypeOK
  <2>2. session[c] \in Active /\ ~StopAhead(c)
    BY <2>1 DEF ServedInvariant, StepAt
  <2>3. StopAhead(c)' => StopAhead(c)
    BY <2>1 DEF StopAhead, served
  <2> QED
    BY <2>2, <2>3
<1>2. UNCHANGED <<at, chosen, born, display, alive, hit, lost, due, tool, session>>
  BY DEF served, work_, sessions, remarks
<1> QED
  BY <1>1, <1>2, QuietKeepsServed

\* A call that arrives joins the line behind every call on its session, and
\* what it is owed was true when it arrived.
LEMMA ArriveKeepsServed ==
  ASSUME ServedInvariant, NEW c \in Calls,
         ArriveOn(c, "use") \/ ArriveOn(c, "stop") \/ ArriveToStart(c)
  PROVE  ServedKept
<1>0. LockInvariant /\ TypeOK /\ \A d \in Calls : LockAt(d) /\ StepAt(d)
  BY DEF ServedInvariant, LockInvariant
<1>1. PICK k \in Keys : pc[c] = "idle" /\ Enter(c, k, k)
  BY DEF ArriveOn, ArriveToStart, ArriveBound, ArriveGlobal, LockKey, Keys
<1>2. /\ UNCHANGED <<at, chosen, born, display, alive, hit, lost, reply>>
      /\ \A d \in Calls \ {c} : due'[d] = due[d] /\ tool'[d] = tool[d]
      /\ tool'[c] = "use" /\ due'[c] => k \in Active /\ ~StopPending(k)
  <2>1. session'[c] = k
    BY <1>0, <1>1 DEF Enter, TypeOK
  <2>2. CASE ArriveToStart(c)
    BY <1>1, <2>2 DEF ArriveToStart, Enter, ServedInvariant, ServedTypeOK, work_, sessions, remarks
  <2>3. ASSUME NEW what \in {"use", "stop"}, ArriveOn(c, what)
        PROVE  /\ UNCHANGED <<at, chosen, born, display, alive, hit, lost, reply>>
               /\ tool' = [tool EXCEPT ![c] = what]
               /\ due' = [due EXCEPT ![c] = k \in Active /\ ~StopPending(k)]
    BY <1>1, <2>1, <2>3 DEF ArriveOn, Enter, work_, sessions
  <2> QED
    BY <2>2, <2>3 DEF ServedInvariant, ServedTypeOK
<1>3. /\ session' = [session EXCEPT ![c] = k]
      /\ \/ /\ owner[k] = Nobody /\ waiters[k] = <<>> /\ UNCHANGED waiters
            /\ pc' = [pc EXCEPT ![c] = "working"] /\ work' = [work EXCEPT ![c] = "queued"]
         \/ /\ waiters' = [waiters EXCEPT ![k] = Append(@, c)]
            /\ pc' = [pc EXCEPT ![c] = "waiting"] /\ UNCHANGED work
  BY <1>1 DEF Enter, Submit, Goto, threads
<1>4. /\ \A d \in Calls \ {c} : pc'[d] = pc[d] /\ work'[d] = work[d] /\ session'[d] = session[d]
      /\ session'[c] = k /\ pc'[c] \in {"waiting", "working"} /\ work'[c] # "running"
      /\ pc'[c] = "working" => owner[k] = Nobody /\ waiters[k] = <<>>
  BY <1>0, <1>1, <1>3 DEF TypeOK, LockAt
<1>5. \A d, e \in Calls, l \in Keys :
        Before(e, d, l)' => Before(e, d, l) \/ (d = c /\ l = k /\ InLine(e, k))
  <2>1. CASE UNCHANGED waiters
    BY <2>1 DEF Before
  <2>2. CASE waiters' = [waiters EXCEPT ![k] = Append(@, c)]
    BY <1>0, <2>2, AppendKeepsBefore
  <2> QED
    BY <1>3, <2>1, <2>2
<1>6. \A d, e \in Calls, l \in Keys : Before(e, d, l) => InLine(e, l)
  BY DEF Before, InLine
<1>7. \A l \in Keys : ~ InLine(c, l)
  BY <1>0, <1>1 DEF LockAt
<1>8. ASSUME Owed(c)' PROVE session'[c] \in Active /\ ~StopAhead(c)'
  <2>1. tool'[c] = "use" /\ due'[c]
    BY <1>8 DEF Owed
  <2>2. k \in Active /\ ~StopPending(k)
    BY <1>2, <2>1
  <2>3. ASSUME NEW e \in Calls, tool'[e] = "stop", session'[e] = k,
               work'[e] = "running" \/ pc'[e] = "working" \/ Before(e, c, k)'
        PROVE  FALSE
    <3>1. e # c
      BY <2>1, <2>3
    <3>2. tool[e] = "stop" /\ session[e] = k
      BY <1>2, <1>4, <2>3, <3>1
    <3>3. work[e] = "running" \/ pc[e] = "working" \/ InLine(e, k)
      BY <1>4, <1>5, <1>6, <2>3, <3>1
    <3>4. InLine(e, k) => pc[e] = "waiting"
      BY <1>0 DEF LockAt
    <3> QED
      BY <2>2, <3>2, <3>3, <3>4 DEF StopPending
  <2> QED
    BY <1>4, <2>2, <2>3 DEF StopAhead
<1>9. ASSUME NEW d \in Calls \ {c}, Owed(d)' PROVE session'[d] \in Active /\ ~StopAhead(d)'
  <2>1. Owed(d) /\ session[d] \in Keys /\ session'[d] = session[d]
    BY <1>0, <1>2, <1>4, <1>9 DEF Owed, TypeOK
  <2>2. session[d] \in Active /\ ~StopAhead(d)
    BY <1>0, <2>1 DEF StepAt
  <2>3. ASSUME NEW e \in Calls, tool'[e] = "stop", session'[e] = session[d],
               work'[e] = "running" \/ pc'[e] = "working" \/ Before(e, d, session[d])'
        PROVE  FALSE
    <3>1. CASE e # c
      BY <1>2, <1>4, <1>5, <2>1, <2>2, <2>3, <3>1 DEF StopAhead
    <3>2. CASE e = c
      <4>1. session[d] = k
        BY <1>4, <2>3, <3>2
      <4>2. pc'[c] # "working"
        <5>1. pc[d] = "waiting" => InLine(d, k)
          BY <1>0, <2>1, <4>1 DEF LockAt
        <5>2. pc[d] = "working" => owner[k] # Nobody
          BY <1>0, <2>1, <4>1, NobodyAssumption DEF LockAt
        <5>3. waiters[k] = <<>> => ~ InLine(d, k)
          BY DEF InLine
        <5> QED
          BY <1>4, <2>1, <5>1, <5>2, <5>3 DEF Owed
      <4>3. ~ Before(c, d, k)'
        BY <1>5, <1>6, <1>7
      <4> QED
        BY <1>4, <2>3, <3>2, <4>1, <4>2, <4>3
    <3> QED
      BY <3>1, <3>2
  <2> QED
    BY <2>1, <2>2, <2>3 DEF StopAhead
<1> QED
  BY <1>1, <1>2, <1>4, <1>8, <1>9, QuietKeepsServed

\* The lock goes to the first in line: no stop passes a call before it.
LEMMA AcquireKeepsServed ==
  ASSUME ServedInvariant, NEW c \in Calls, Acquire(c), UNCHANGED served
  PROVE  ServedKept
<1>0. LockInvariant /\ TypeOK /\ \A d \in Calls : LockAt(d) /\ StepAt(d)
  BY DEF ServedInvariant, LockInvariant
<1>1. PICK k \in Keys : k = key[c]
  BY <1>0 DEF TypeOK
<1>2. /\ pc[c] = "waiting" /\ pc' = [pc EXCEPT ![c] = "working"] /\ owner[k] = Nobody
      /\ work' = [work EXCEPT ![c] = "queued"] /\ UNCHANGED <<session, reply>>
      /\ waiters[k] # <<>> /\ Head(waiters[k]) = c /\ waiters[k] \in Seq(Calls)
      /\ waiters' = [waiters EXCEPT ![k] = Tail(waiters[k])]
  BY <1>0, <1>1 DEF Acquire, Submit, Goto, TypeOK
<1>3. /\ Without(waiters[k], 1, waiters'[k]) /\ 1 \in DOMAIN waiters[k] /\ waiters[k][1] = c
      /\ \A i \in DOMAIN waiters[k] : 1 <= i
      /\ \A l \in Keys \ {k} : waiters'[l] = waiters[l]
  BY <1>0, <1>2, TailWithout DEF TypeOK
<1>4. \A d, e \in Calls, l \in Keys : Before(e, d, l)' => Before(e, d, l)
  BY <1>3, WithoutKeepsBefore
<1>5. session[c] = k
  BY <1>0, <1>1, <1>2 DEF LockAt
<1>6. UNCHANGED <<at, chosen, born, display, alive, hit, lost, due, tool>>
  BY DEF served, work_, sessions, remarks
<1>7. ASSUME NEW d \in Calls, Owed(d)' PROVE session'[d] \in Active /\ ~StopAhead(d)'
  <2>1. Owed(d) /\ session[d] \in Keys
    BY <1>0, <1>2, <1>6, <1>7 DEF Owed, TypeOK
  <2>2. session[d] \in Active /\ ~StopAhead(d)
    BY <1>0, <2>1 DEF StepAt
  <2>3. ASSUME NEW e \in Calls, tool[e] = "stop", session[e] = session[d],
               work'[e] = "running" \/ pc'[e] = "working" \/ Before(e, d, session[d])'
        PROVE  FALSE
    <3>1. CASE e # c \/ pc'[e] # "working"
      BY <1>0, <1>2, <1>4, <2>1, <2>2, <2>3, <3>1 DEF StopAhead, TypeOK
    <3>2. CASE e = c
      <4>1. session[d] = k /\ d # c
        BY <1>5, <2>1, <2>3, <3>2 DEF Owed
      <4>2. pc[d] = "waiting" /\ InLine(d, k)
        BY <1>0, <1>2, <2>1, <4>1, NobodyAssumption DEF Owed, LockAt
      <4>3. PICK j \in DOMAIN waiters[k] : waiters[k][j] = d
        BY <4>2 DEF InLine
      <4>4. 1 < j
        <5>1. j \in Nat /\ j # 1 /\ 1 <= j
          BY <1>2, <1>3, <4>1, <4>3, LenProperties
        <5> QED
          BY <5>1
      <4>5. Before(c, d, k)
        BY <1>3, <4>3, <4>4 DEF Before
      <4> QED
        BY <2>2, <2>3, <3>2, <4>1, <4>5 DEF StopAhead
    <3> QED
      BY <3>1, <3>2
  <2> QED
    BY <1>2, <1>6, <2>2, <2>3 DEF StopAhead
<1> QED
  BY <1>0, <1>2, <1>6, <1>7, QuietKeepsServed DEF TypeOK

\* The steps of use cases.  c's use case runs, and goes on to the next step.
LEMMA UseCaseKeepsServed ==
  ASSUME ServedInvariant, NEW c \in Calls, work[c] = "running", at[c] # "probed",
         NEW step \in {"failed", "driven", "half", "stopped", "probed"}, Reaches(c, step),
         UNCHANGED <<vars, tool, due, born, display, lost>>,
         \A d \in Calls \ {c} : hit'[d] = hit[d] /\ chosen'[d] = chosen[d],
         step = "probed" =>
           /\ chosen'[c].session \in Sessions \ ToSet(born)
           /\ \A d \in Calls : chosen[d].session # chosen'[c].session,
         \A s \in Sessions : alive'[s] \subseteq alive[s],
         \A d \in Calls \ {c} : Owed(d) => alive'[session[d]] = alive[session[d]],
         Owed(c) /\ reply[c] # "cancelled" => step # "failed" /\ hit'[c] \subseteq {session[c]},
         tool[c] = "use" => at[c] = "begun"
  PROVE  ServedKept
<1>0. /\ LockInvariant /\ ServedTypeOK /\ \A d \in Calls : StepAt(d) /\ LockAt(d)
      /\ DisplaysApart /\ StartsApart /\ DueIsServed
  BY DEF ServedInvariant, LockInvariant
<1>1. at'[c] = step /\ \A d \in Calls \ {c} : at'[d] = at[d]
  BY <1>0 DEF Reaches, ServedTypeOK
<1>2. UNCHANGED <<pc, session, work, waiters, reply>>
  BY DEF vars, handlers, locks, threads
<1>3. DisplaysApart'
  BY <1>0 DEF DisplaysApart
<1>4. StartsApart'
  BY <1>0, <1>1 DEF StartsApart
<1>5. ASSUME NEW d \in Calls PROVE StepAt(d)'
  <2>1. CASE d = c
    <3>1. pc[c] \notin {"idle", "waiting"}
      BY <1>0 DEF LockAt
    <3> QED
      BY <1>1, <1>2, <2>1, <3>1 DEF StepAt, Owed
  <2>2. CASE d # c
    <3>1. StepAt(d) /\ at'[d] = at[d] /\ hit'[d] = hit[d] /\ chosen'[d] = chosen[d]
      BY <1>0, <1>1, <2>2
    <3>2. Owed(d)' <=> Owed(d)
      BY <1>1, <1>2, <2>2 DEF Owed
    <3>3. StopAhead(d)' <=> StopAhead(d)
      BY <1>2 DEF StopAhead, Before
    <3>4. Owed(d) => session[d] \in Active'
      BY <2>2, <3>1 DEF StepAt, Active
    <3> QED
      BY <1>2, <3>1, <3>2, <3>3, <3>4 DEF StepAt
  <2> QED
    BY <2>1, <2>2
<1>6. DueIsServed'
  <2> SUFFICES ASSUME NEW d \in Calls, due[d], tool[d] = "use", reply[d] # "cancelled",
                      session[d] \notin lost
               PROVE  at'[d] # "failed" /\ hit'[d] \subseteq {session[d]}
    BY <1>2 DEF DueIsServed
  <2>1. CASE d # c
    BY <1>0, <1>1, <2>1 DEF DueIsServed
  <2>2. CASE d = c
    <3>1. pc[c] = "working"
      BY <1>0, <2>2 DEF LockAt
    <3>2. Owed(c)
      BY <2>2, <3>1 DEF Owed
    <3> QED
      BY <1>1, <2>2, <3>2
  <2> QED
    BY <2>1, <2>2
<1> QED
  BY <1>3, <1>4, <1>5, <1>6 DEF ServedKept

\* The display of the session that is owed is its own.
LEMMA DriveKeepsServed ==
  ASSUME ServedInvariant, NEW c \in Calls, Drive(c)
  PROVE  ServedKept
<1> DEFINE shown == Shown(display[session[c]])
<1>0. ServedTypeOK /\ DisplaysApart /\ StepAt(c)
  BY DEF ServedInvariant
<1>1. Owed(c) => session[c] \in shown /\ shown \subseteq {session[c]}
  <2> SUFFICES ASSUME Owed(c) PROVE session[c] \in shown /\ shown \subseteq {session[c]}
    OBVIOUS
  <2>1. session[c] \in Active
    BY <1>0 DEF StepAt
  <2>2. session[c] \in Sessions /\ alive[session[c]] = Whole
    BY <1>0, <2>1, ElementOfSeq, LenProperties DEF Active, ToSet, ServedTypeOK
  <2>3. "xvfb_pid" \in alive[session[c]]
    BY <2>2 DEF Whole
  <2> QED
    BY <1>0, <2>2, <2>3 DEF Shown, DisplaysApart
<1>2. PICK step \in {"failed", "driven"} :
        Reaches(c, step) /\ (step = "failed" <=> shown = {})
  BY DEF Drive
<1>3. hit' = [hit EXCEPT ![c] = shown]
  BY DEF Drive
<1>4. work[c] = "running" /\ at[c] = "begun"
      /\ UNCHANGED <<vars, tool, due, born, display, alive, chosen, lost>>
  BY DEF Drive, Runs, sessions, remarks
<1> HIDE DEF shown
<1>5. hit'[c] = shown /\ \A d \in Calls \ {c} : hit'[d] = hit[d]
  BY <1>0, <1>3 DEF ServedTypeOK
<1> QED
  BY <1>1, <1>2, <1>4, <1>5, UseCaseKeepsServed

\* A stop kills processes of a session to which nobody is owed anything.
LEMMA KillKeepsServed ==
  ASSUME ServedInvariant, NEW c \in Calls, KillApp(c) \/ KillXvfb(c)
  PROVE  ServedKept
<1>0. ServedTypeOK /\ \A d \in Calls : StepAt(d)
  BY DEF ServedInvariant
<1>1. PICK step \in {"half", "stopped"}, p \in Whole :
        Reaches(c, step) /\ alive' = [alive EXCEPT ![session[c]] = @ \ {p}]
  BY DEF KillApp, KillXvfb, Whole
<1>2. /\ work[c] = "running" /\ tool[c] = "stop" /\ at[c] \in {"begun", "half"}
      /\ UNCHANGED <<vars, tool, due, born, display, hit, chosen, lost>>
  BY DEF KillApp, KillXvfb, Runs, remarks
<1>3. (\A s \in Sessions : alive'[s] \subseteq alive[s])
      /\ \A s \in Sessions : s # session[c] => alive'[s] = alive[s]
  BY <1>0, <1>1 DEF ServedTypeOK
<1>4. ASSUME NEW d \in Calls, Owed(d) PROVE alive'[session[d]] = alive[session[d]]
  <2>1. session[d] \in Active /\ ~ StopAhead(d)
    BY <1>0, <1>4 DEF StepAt
  <2>2. session[d] \in Sessions
    BY <1>0, <2>1, ElementOfSeq, LenProperties DEF Active, ToSet, ServedTypeOK
  <2>3. session[d] # session[c]
    BY <1>2, <2>1 DEF StopAhead
  <2> QED
    BY <1>3, <2>2, <2>3
<1>5. ~ Owed(c)
  BY <1>2 DEF Owed
<1> QED
  BY <1>1, <1>2, <1>3, <1>4, <1>5, UseCaseKeepsServed

\* A start picks an id that no other has picked.
LEMMA ProbeKeepsServed ==
  ASSUME ServedInvariant, NEW c \in Calls, Probe(c)
  PROVE  ServedKept
<1>0. ServedTypeOK
  BY DEF ServedInvariant
<1>1. /\ work[c] = "running" /\ tool[c] = "start" /\ at[c] = "begun"
      /\ UNCHANGED <<vars, tool, due, born, display, alive, hit, lost>>
  BY DEF Probe, Runs, sessions, remarks
<1>2. ~ Owed(c)
  BY <1>1 DEF Owed
<1>3. CASE Reaches(c, "failed") /\ UNCHANGED chosen
  BY <1>1, <1>2, <1>3, UseCaseKeepsServed
<1>4. ASSUME NEW s \in Sessions \ (ToSet(born) \cup {chosen[d].session : d \in Calls}), NEW n,
             chosen' = [chosen EXCEPT ![c] = [session |-> s, display |-> n]],
             Reaches(c, "probed")
      PROVE  ServedKept
  <2>1. /\ chosen'[c].session = s
        /\ \A d \in Calls \ {c} : chosen'[d] = chosen[d]
    BY <1>0, <1>4 DEF ServedTypeOK
  <2>2. \A d \in Calls : chosen[d].session # s
    OBVIOUS
  <2> QED
    BY <1>1, <1>2, <1>4, <2>1, <2>2, UseCaseKeepsServed
<1> QED
  BY <1>3, <1>4 DEF Probe

\* A session that comes to life is new, on a display that nobody has.
LEMMA SpawnKeepsServed ==
  ASSUME ServedInvariant, NEW c \in Calls, Spawn(c)
  PROVE  ServedKept
<1>0. /\ LockInvariant /\ ServedTypeOK /\ \A d \in Calls : StepAt(d) /\ LockAt(d)
      /\ DisplaysApart /\ StartsApart /\ DueIsServed
  BY DEF ServedInvariant, LockInvariant
<1>1. PICK s \in Sessions \ ToSet(born) : s = chosen[c].session
  BY <1>0 DEF Spawn, StepAt
<1>2. /\ work[c] = "running" /\ tool[c] = "start" /\ at[c] = "probed"
      /\ UNCHANGED <<vars, tool, due, chosen, hit, lost>>
      /\ UNCHANGED <<pc, session, work, waiters, reply>>
  BY DEF Spawn, Runs, remarks, vars, handlers, locks, threads
<1>3. PICK step \in {"failed", "started"} :
        /\ Reaches(c, step)
        /\ \/ UNCHANGED <<born, display, alive>>
           \/ /\ Shown(chosen[c].display) = {} /\ born' = Append(born, s)
              /\ display' = [display EXCEPT ![s] = chosen[c].display]
              /\ alive' = [alive EXCEPT ![s] = Whole]
  BY <1>1 DEF Spawn, sessions
<1>4. at'[c] = step /\ \A d \in Calls \ {c} : at'[d] = at[d]
  BY <1>0, <1>3 DEF Reaches, ServedTypeOK
<1>5. /\ ToSet(born) \subseteq ToSet(born') /\ ToSet(born') \subseteq ToSet(born) \cup {s}
      /\ \A t \in Sessions \ {s} : alive'[t] = alive[t] /\ display'[t] = display[t]
  <2>1. CASE UNCHANGED <<born, display, alive>>
    BY <2>1
  <2>2. CASE /\ born' = Append(born, s)
             /\ display' = [display EXCEPT ![s] = chosen[c].display]
             /\ alive' = [alive EXCEPT ![s] = Whole]
    <3>1. born \in Seq(Sessions)
      BY <1>0 DEF ServedTypeOK
    <3>2. ToSet(born) \subseteq ToSet(born') /\ ToSet(born') \subseteq ToSet(born) \cup {s}
      BY <2>2, <3>1, AppendOnce DEF ToSet
    <3> QED
      BY <1>0, <2>2, <3>2 DEF ServedTypeOK
  <2> QED
    BY <1>3, <2>1, <2>2
<1>6. StartsApart'
  BY <1>0, <1>2, <1>3, <1>4 DEF StartsApart
<1>7. DisplaysApart'
  <2>1. CASE UNCHANGED <<born, display, alive>>
    BY <1>0, <2>1 DEF DisplaysApart
  <2>2. CASE /\ Shown(chosen[c].display) = {}
             /\ display' = [display EXCEPT ![s] = chosen[c].display]
    <3>1. display'[s] = chosen[c].display
      BY <1>0, <2>2 DEF ServedTypeOK
    <3>2. \A t \in Sessions \ {s} : "xvfb_pid" \in alive'[t] => display'[t] # display'[s]
      BY <1>5, <2>2, <3>1 DEF Shown
    <3> QED
      BY <1>0, <1>5, <3>2 DEF DisplaysApart
  <2> QED
    BY <1>3, <2>1, <2>2
<1>8. ASSUME NEW d \in Calls PROVE StepAt(d)'
  <2>1. CASE d = c
    <3>1. pc[c] \notin {"idle", "waiting"}
      BY <1>0, <1>2 DEF LockAt
    <3> QED
      BY <1>2, <1>3, <1>4, <2>1, <3>1 DEF StepAt, Owed
  <2>2. CASE d # c
    <3>1. StepAt(d) /\ at'[d] = at[d]
      BY <1>0, <1>4, <2>2
    <3>2. Owed(d)' <=> Owed(d)
      BY <1>2, <3>1 DEF Owed
    <3>3. StopAhead(d)' <=> StopAhead(d)
      BY <1>2 DEF StopAhead, Before
    <3>4. at[d] = "probed" => chosen[d].session \in Sessions \ ToSet(born')
      BY <1>0, <1>1, <1>2, <1>5, <2>2, <3>1 DEF StepAt, StartsApart
    <3>5. Owed(d) => session[d] \in Active'
      <4> SUFFICES ASSUME Owed(d) PROVE session[d] \in Active'
        OBVIOUS
      <4>1. session[d] \in ToSet(born) /\ alive[session[d]] = Whole
        BY <3>1 DEF StepAt, Active
      <4>2. session[d] \in Sessions \ {s}
        BY <1>0, <4>1, ElementOfSeq, LenProperties DEF ToSet, ServedTypeOK
      <4> QED
        BY <1>2, <1>5, <4>1, <4>2 DEF Active
    <3> QED
      BY <1>2, <3>1, <3>2, <3>3, <3>4, <3>5 DEF StepAt
  <2> QED
    BY <2>1, <2>2
<1>9. DueIsServed'
  BY <1>0, <1>2, <1>4 DEF DueIsServed
<1> QED
  BY <1>6, <1>7, <1>8, <1>9 DEF ServedKept

\* Nothing is owed any longer on a session that has ended otherwise.
LEMMA DeathKeepsServed ==
  ASSUME ServedInvariant, NEW s \in Sessions, Dies(s)
  PROVE  ServedKept
<1>0. /\ ServedTypeOK /\ \A d \in Calls : StepAt(d)
      /\ DisplaysApart /\ StartsApart /\ DueIsServed
  BY DEF ServedInvariant
<1>1. /\ UNCHANGED <<vars, tool, at, chosen, born, display, hit, due>>
      /\ UNCHANGED <<pc, session, work, waiters, reply>>
      /\ alive' = [alive EXCEPT ![s] = {}] /\ lost' = lost \cup {s}
  BY DEF Dies, work_, remarks, vars, handlers, locks, threads
<1>2. DisplaysApart' /\ StartsApart' /\ DueIsServed'
  BY <1>0, <1>1 DEF DisplaysApart, StartsApart, DueIsServed, ServedTypeOK
<1>3. ASSUME NEW d \in Calls PROVE StepAt(d)'
  <2>1. Owed(d)' => Owed(d) /\ session[d] # s
    BY <1>1 DEF Owed
  <2>2. StopAhead(d)' <=> StopAhead(d)
    BY <1>1 DEF StopAhead, Before
  <2>3. session[d] \in Active /\ session[d] # s => session[d] \in Active'
    <3>1. ToSet(born) \subseteq Sessions
      BY <1>0, ElementOfSeq, LenProperties DEF ToSet, ServedTypeOK
    <3> QED
      BY <1>0, <1>1, <3>1 DEF Active, ServedTypeOK
  <2> QED
    BY <1>0, <1>1, <2>1, <2>2, <2>3 DEF StepAt
<1> QED
  BY <1>2, <1>3 DEF ServedKept

LEMMA ServedIsKept == ServedInvariant /\ [ServedNext]_allVars => ServedInvariant'
<1> SUFFICES ASSUME ServedInvariant, [ServedNext]_allVars PROVE ServedInvariant'
  OBVIOUS
<1>0. /\ LockInvariant /\ TypeOK /\ \A d \in Calls : LockAt(d)
      /\ ServedTypeOK' /\ LockInvariant'
  BY ServedDispatches, LocksAreKept, ServedNextType DEF ServedInvariant, LockInvariant
<1>1. ASSUME NEW c \in Calls, ArriveOn(c, "use") \/ ArriveOn(c, "stop") \/ ArriveToStart(c)
      PROVE  ServedKept
  BY <1>1, ArriveKeepsServed
<1>2. ASSUME NEW c \in Calls, Acquire(c), UNCHANGED served PROVE ServedKept
  BY <1>2, AcquireKeepsServed
<1>3. ASSUME NEW c \in Calls, UNCHANGED served,
             \/ ResolveFails(c) \/ Finish(c) \/ CancelWaiting(c) \/ CancelWorking(c)
      PROVE  ServedKept
  <2>1. /\ pc[c] # "ended" /\ pc' = [pc EXCEPT ![c] = "ended"] /\ UNCHANGED session
        /\ \E what \in Replies : Reply(c, what)
        /\ UNCHANGED work \/ work' = [work EXCEPT ![c] = "dropped"]
        /\ \A d, e \in Calls, k \in Keys : Before(e, d, k)' => Before(e, d, k)
    <3>1. CASE ResolveFails(c) \/ Finish(c) \/ CancelWorking(c)
      <4>1. UNCHANGED waiters
        BY <3>1 DEF ResolveFails, Finish, CancelWorking, Release, locks
      <4>2. \A d, e \in Calls, k \in Keys : Before(e, d, k)' => Before(e, d, k)
        BY <4>1 DEF Before
      <4> QED
        BY <3>1, <4>2 DEF ResolveFails, Finish, CancelWorking, Goto, threads, Replies
    <3>2. CASE CancelWaiting(c)
      <4>1. PICK k \in Keys : k = key[c]
        BY <1>0 DEF TypeOK
      <4>2. PICK i \in DOMAIN waiters[k] : waiters' = [waiters EXCEPT ![k] = RemoveAt(waiters[k], i)]
        BY <3>2, <4>1 DEF CancelWaiting
      <4>3. /\ waiters[k] \in Seq(Calls) /\ waiters'[k] = RemoveAt(waiters[k], i)
            /\ \A l \in Keys \ {k} : waiters'[l] = waiters[l]
        BY <1>0, <4>2 DEF TypeOK
      <4>4. Without(waiters[k], i, waiters'[k])
        BY <4>3, RemoveWithout
      <4>5. \A d, e \in Calls, l \in Keys : Before(e, d, l)' => Before(e, d, l)
        BY <4>3, <4>4, WithoutKeepsBefore
      <4> QED
        BY <3>2, <4>5 DEF CancelWaiting, Goto, threads, Replies
    <3> QED
      BY <1>3, <3>1, <3>2
  <2>2. reply[c] # "cancelled" /\ \A d \in Calls \ {c} : reply'[d] = reply[d]
    BY <1>0, <2>1 DEF LockAt, Reply, TypeOK
  <2>3. \A d \in Calls : /\ pc'[d] = pc[d] \/ pc'[d] = "ended"
                         /\ work'[d] = "running" => work[d] = "running"
    BY <1>0, <2>1 DEF TypeOK
  <2> QED
    BY <1>3, <2>1, <2>2, <2>3, NoNewStops
<1>4. ASSUME NEW c \in Calls, UNCHANGED served, Begin(c) \/ End(c) PROVE ServedKept
  <2>1. UNCHANGED <<pc, session, reply, waiters>>
    BY <1>4 DEF Begin, End, handlers, locks
  <2>2. \A d \in Calls : work'[d] = "running" => work[d] = "running" \/ pc[d] = "working"
    <3>1. CASE Begin(c)
      <4>1. /\ backlog \in Seq(Calls) /\ backlog # <<>> /\ Head(backlog) = c
            /\ work' = [work EXCEPT ![c] = "running"]
        BY <1>0, <3>1 DEF Begin, TypeOK
      <4>2. InBacklog(c)
        BY <4>1, TailWithout DEF InBacklog
      <4>3. pc[c] = "working"
        BY <1>0, <4>2 DEF LockAt
      <4> QED
        BY <1>0, <4>1, <4>3 DEF TypeOK
    <3>2. CASE End(c)
      BY <1>0, <3>2 DEF End, TypeOK
    <3> QED
      BY <1>4, <3>1, <3>2
  <2>3. \A d, e \in Calls, k \in Keys : Before(e, d, k)' => Before(e, d, k)
    BY <2>1 DEF Before
  <2> QED
    BY <1>4, <2>1, <2>2, <2>3, NoNewStops
<1>5. ASSUME NEW c \in Calls, UseCase(c), ~ EndWork(c) PROVE ServedKept
  BY <1>5, DriveKeepsServed, KillKeepsServed, ProbeKeepsServed, SpawnKeepsServed DEF UseCase
<1>6. ASSUME NEW s \in Sessions, Dies(s) PROVE ServedKept
  BY <1>6, DeathKeepsServed
<1>7. ASSUME UNCHANGED allVars PROVE ServedKept
  <2>1. UNCHANGED served /\ UNCHANGED <<pc, session, reply, waiters, work>>
    BY <1>7 DEF allVars, vars, handlers, locks, threads
  <2>2. \A d, e \in Calls, k \in Keys : Before(e, d, k)' => Before(e, d, k)
    BY <2>1 DEF Before
  <2> QED
    BY <2>1, <2>2, NoNewStops
<1>8. ServedKept
  BY <1>1, <1>2, <1>3, <1>4, <1>5, <1>6, <1>7
  DEF ServedNext, ArriveServed, NoneActive, Dispatched, UseCase, EndWork
<1> QED
  BY <1>0, <1>8 DEF ServedInvariant, ServedKept

LEMMA ServedInvariantHolds == ServedSpec => []ServedInvariant
  BY ServedInitInvariant, ServedIsKept, PTL DEF ServedSpec

(***************************************************************************)
(* A call that found its session whole, with no stop of it in sight, is    *)
(* served on that session's own display, however long it waits and         *)
(* whatever else is started, stopped, cancelled or killed meanwhile:       *)
(* every later stop waits for the same lock behind it.                     *)
(***************************************************************************)
THEOREM WhoIsDueIsServed == ServedSpec => []DueIsServed
<1>1. ServedInvariant => DueIsServed
  BY DEF ServedInvariant
<1> QED
  BY <1>1, ServedInvariantHolds, PTL

(***************************************************************************)
(* Two calls on one session, neither given up by its client, are never     *)
(* both under way: both would hold the session's lock.  So no call drives  *)
(* a session of which a stop has killed the application and not yet the    *)
(* display (session_stop.py:109).                                          *)
(***************************************************************************)
THEOREM DrivesNoHalfStopped == ServedSpec => NeverHalfStopped
<1> DEFINE Apart == \A c, d \in Calls :
             at[c] # "driven" /\ at'[c] = "driven" /\ at[d] = "half" /\ session[c] = session[d] =>
               "cancelled" \in {reply[c], reply[d]} \/ work[d] # "running"
<1>1. ASSUME ServedInvariant, [ServedNext]_allVars PROVE [Apart]_allVars
  <2> SUFFICES ASSUME NEW c \in Calls, NEW d \in Calls, at[c] # "driven", at'[c] = "driven",
                      at[d] = "half", session[c] = session[d],
                      reply[c] # "cancelled", reply[d] # "cancelled", work[d] = "running"
               PROVE  FALSE
    OBVIOUS
  <2>0. ServedTypeOK /\ \A e \in Calls : LockAt(e)
    BY <1>1 DEF ServedInvariant, LockInvariant
  <2>1. ASSUME NEW e \in Calls, ArriveServed(e) \/ Dispatched(e) PROVE FALSE
    BY <2>1 DEF ArriveServed, ArriveOn, ArriveToStart, NoneActive, Dispatched, served, work_
  <2>2. ASSUME NEW e \in Calls, UseCase(e) PROVE Drive(c)
    <3>1. CASE Drive(e)
      <4>1. e = c
        BY <2>0, <3>1 DEF Drive, Reaches, ServedTypeOK
      <4> QED
        BY <3>1, <4>1
    <3>2. CASE EndWork(e)
      BY <3>2 DEF EndWork, served, work_
    <3>3. CASE KillApp(e) \/ KillXvfb(e) \/ Probe(e) \/ Spawn(e)
      <4>1. \E step \in {"failed", "half", "stopped", "probed", "started"} : Reaches(e, step)
        BY <3>3 DEF KillApp, KillXvfb, Probe, Spawn
      <4> QED
        BY <2>0, <4>1 DEF Reaches, ServedTypeOK
    <3> QED
      BY <2>2, <3>1, <3>2, <3>3 DEF UseCase
  <2>3. ASSUME NEW s \in Sessions, Dies(s) PROVE FALSE
    BY <2>3 DEF Dies, work_
  <2>4. CASE UNCHANGED allVars
    BY <2>4 DEF allVars, served, work_
  <2>5. Drive(c)
    BY <1>1, <2>1, <2>2, <2>3, <2>4 DEF ServedNext
  <2>6. work[c] = "running" /\ at[c] = "begun"
    BY <2>5 DEF Drive, Runs
  <2>7. owner[session[c]] = c /\ owner[session[c]] = d
    BY <2>0, <2>6 DEF LockAt
  <2> QED
    BY <2>6, <2>7
<1> QED
  BY <1>1, ServedInvariantHolds, PTL DEF ServedSpec, NeverHalfStopped
=============================================================================
