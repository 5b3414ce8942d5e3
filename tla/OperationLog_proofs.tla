------------------------ MODULE OperationLog_proofs ------------------------
(***************************************************************************)
(* The operation log for any number of commands and readers, any limit and *)
(* any log of earlier commands; and, after it, the records that commands   *)
(* and tools write to it (Surfaces), for any sessions.                     *)
(***************************************************************************)
EXTENDS OperationLog, Surfaces, SequenceTheorems, FiniteSetTheorems, WellFoundedInduction, TLAPS

-----------------------------------------------------------------------------
(***************************************************************************)
(* Sequences of lines.                                                     *)
(***************************************************************************)
\* A suffix, read from its end.
LEMMA SuffixIs ==
  ASSUME NEW S, NEW s \in Seq(S), NEW t \in Seq(S)
  PROVE  IsSuffix(s, t) <=>
           /\ Len(s) <= Len(t)
           /\ \A i \in 1 .. Len(s) : s[i] = t[Len(t) - Len(s) + i]
<1> DEFINE m == Len(s)
           n == Len(t)
           rs == Reverse(s)
           rt == Reverse(t)
<1>1. m \in Nat /\ n \in Nat
      /\ (\A i \in 1 .. m : s[i] \in S) /\ (\A i \in 1 .. n : t[i] \in S)
  BY LenProperties, ElementOfSeq
<1>2. /\ rs \in Seq(S) /\ Len(rs) = m /\ \A i \in 1 .. m : rs[i] = s[(m - i) + 1]
      /\ rt \in Seq(S) /\ Len(rt) = n /\ \A i \in 1 .. n : rt[i] = t[(n - i) + 1]
  BY <1>1 DEF Reverse
<1>3. IsSuffix(s, t) <=> m <= n /\ SubSeq(rs, 1, m) = SubSeq(rt, 1, m)
  BY <1>2 DEF IsSuffix, IsPrefix
<1>4. ASSUME m <= n
      PROVE  SubSeq(rs, 1, m) = SubSeq(rt, 1, m) <=> \A i \in 1 .. m : rs[i] = rt[i]
  <2>1. (\A i \in 1 .. m : rs[i] \in S) /\ (\A i \in 1 .. m : rt[i] \in S)
    BY <1>1, <1>2, <1>4
  <2>2. /\ SubSeq(rs, 1, m) \in Seq(S) /\ Len(SubSeq(rs, 1, m)) = m
        /\ \A i \in 1 .. m : SubSeq(rs, 1, m)[i] = rs[i]
    BY <1>1, <2>1, SubSeqProperties
  <2>3. /\ SubSeq(rt, 1, m) \in Seq(S) /\ Len(SubSeq(rt, 1, m)) = m
        /\ \A i \in 1 .. m : SubSeq(rt, 1, m)[i] = rt[i]
    BY <1>1, <2>1, SubSeqProperties
  <2> HIDE DEF rs, rt
  <2>4. ASSUME \A i \in 1 .. m : rs[i] = rt[i] PROVE SubSeq(rs, 1, m) = SubSeq(rt, 1, m)
    BY <2>2, <2>3, <2>4, SeqEqual
  <2> QED
    BY <2>2, <2>3, <2>4
<1>5. ASSUME m <= n
      PROVE  (\A i \in 1 .. m : rs[i] = rt[i]) <=> \A i \in 1 .. m : s[i] = t[n - m + i]
  <2>1. \A i \in 1 .. m : /\ (m - i) + 1 \in 1 .. m /\ i \in 1 .. n
                          /\ (m - ((m - i) + 1)) + 1 = i
                          /\ (n - i) + 1 = n - m + ((m - i) + 1)
    BY <1>1, <1>5
  <2> HIDE DEF rs, rt
  <2>2. ASSUME \A i \in 1 .. m : rs[i] = rt[i], NEW i \in 1 .. m PROVE s[i] = t[n - m + i]
    <3> DEFINE j == (m - i) + 1
    <3>1. j \in 1 .. m /\ j \in 1 .. n /\ (m - j) + 1 = i /\ (n - j) + 1 = n - m + i
      BY <1>1, <1>5
    <3> HIDE DEF j
    <3> QED
      BY <1>2, <2>2, <3>1
  <2>3. ASSUME \A i \in 1 .. m : s[i] = t[n - m + i], NEW i \in 1 .. m PROVE rs[i] = rt[i]
    BY <1>2, <2>1, <2>3
  <2> QED
    BY <2>2, <2>3
<1> QED
  BY <1>3, <1>4, <1>5

\* Everything there is, is recent.
LEMMA AllIsRecent ==
  ASSUME NEW S, NEW s \in Seq(S)
  PROVE  IsRecent(s, s)
<1>1. Len(s) \in Nat
  BY LenProperties
<1>2. IsSuffix(s, s)
  BY <1>1, SuffixIs
<1> QED
  BY <1>1, <1>2, EntriesAssumption DEF IsRecent

\* What is appended to both stays recent.
LEMMA RecentGrows ==
  ASSUME NEW S, NEW s \in Seq(S), NEW t \in Seq(S), NEW e \in S, IsRecent(s, t)
  PROVE  IsRecent(Append(s, e), Append(t, e))
<1> DEFINE u == Append(s, e)
           v == Append(t, e)
<1>1. Len(s) \in Nat /\ Len(t) \in Nat
  BY LenProperties
<1>2. /\ u \in Seq(S) /\ Len(u) = Len(s) + 1
      /\ (\A i \in 1 .. Len(s) : u[i] = s[i]) /\ u[Len(s) + 1] = e
  BY AppendProperties
<1>3. /\ v \in Seq(S) /\ Len(v) = Len(t) + 1
      /\ (\A i \in 1 .. Len(t) : v[i] = t[i]) /\ v[Len(t) + 1] = e
  BY AppendProperties
<1>4. /\ Len(s) <= Len(t)
      /\ \A i \in 1 .. Len(s) : s[i] = t[Len(t) - Len(s) + i]
  BY SuffixIs DEF IsRecent
<1> HIDE DEF u, v
<1>5. ASSUME NEW i \in 1 .. Len(u) PROVE u[i] = v[Len(v) - Len(u) + i]
  <2>1. CASE i \in 1 .. Len(s)
    <3>1. /\ Len(v) - Len(u) + i = Len(t) - Len(s) + i
          /\ Len(t) - Len(s) + i \in 1 .. Len(t)
      BY <1>1, <1>2, <1>3, <1>4, <2>1
    <3> QED
      BY <1>2, <1>3, <1>4, <2>1, <3>1
  <2>2. CASE i = Len(s) + 1
    BY <1>1, <1>2, <1>3, <2>2
  <2> QED
    BY <1>1, <1>2, <1>5, <2>1, <2>2
<1>6. Len(u) <= Len(v)
  BY <1>1, <1>2, <1>3, <1>4
<1>7. IsSuffix(u, v)
  BY <1>2, <1>3, <1>5, <1>6, SuffixIs
<1>8. Len(s) >= IF Len(t) < MaxEntries THEN Len(t) ELSE MaxEntries
  BY DEF IsRecent
<1>9. Len(u) >= IF Len(v) < MaxEntries THEN Len(v) ELSE MaxEntries
  BY <1>1, <1>2, <1>3, <1>8, EntriesAssumption
<1> QED
  BY <1>7, <1>9 DEF IsRecent, u, v

\* What a rotation keeps.
LEMMA LastEntriesType ==
  ASSUME NEW S, NEW s \in Seq(S), Len(s) > MaxEntries
  PROVE  /\ LastEntries(s) \in Seq(S) /\ Len(LastEntries(s)) = MaxEntries
         /\ \A i \in 1 .. MaxEntries : LastEntries(s)[i] = s[Len(s) - MaxEntries + i]
<1> DEFINE a == Len(s) - MaxEntries + 1
           b == Len(s)
<1>1. a \in Int /\ b \in Int /\ a <= b /\ b - a + 1 = MaxEntries
      /\ a .. b \subseteq 1 .. Len(s)
      /\ \A i \in 1 .. MaxEntries : a + i - 1 = Len(s) - MaxEntries + i
  BY LenProperties, EntriesAssumption
<1>2. \A i \in a .. b : s[i] \in S
  BY <1>1, ElementOfSeq
<1>3. LastEntries(s) = SubSeq(s, a, b)
  BY DEF LastEntries
<1> HIDE DEF a, b
<1>4. /\ SubSeq(s, a, b) \in Seq(S) /\ Len(SubSeq(s, a, b)) = MaxEntries
      /\ \A i \in 1 .. MaxEntries : SubSeq(s, a, b)[i] = s[a + i - 1]
  BY <1>1, <1>2, SubSeqProperties
<1> QED
  BY <1>1, <1>3, <1>4

LEMMA LastEntriesAreRecent ==
  ASSUME NEW S, NEW s \in Seq(S), NEW t \in Seq(S), IsRecent(s, t), Len(s) > MaxEntries
  PROVE  IsRecent(LastEntries(s), t)
<1> DEFINE u == LastEntries(s)
<1>1. Len(s) \in Nat /\ Len(t) \in Nat /\ MaxEntries \in Nat \ {0}
  BY LenProperties, EntriesAssumption
<1>2. /\ u \in Seq(S) /\ Len(u) = MaxEntries
      /\ \A i \in 1 .. MaxEntries : u[i] = s[Len(s) - MaxEntries + i]
  BY LastEntriesType
<1>3. /\ Len(s) <= Len(t)
      /\ \A i \in 1 .. Len(s) : s[i] = t[Len(t) - Len(s) + i]
  BY SuffixIs DEF IsRecent
<1> HIDE DEF u
<1>4. ASSUME NEW i \in 1 .. Len(u) PROVE u[i] = t[Len(t) - Len(u) + i]
  <2> DEFINE j == Len(s) - MaxEntries + i
  <2>1. j \in 1 .. Len(s) /\ Len(t) - Len(s) + j = Len(t) - Len(u) + i
    BY <1>1, <1>2
  <2>2. u[i] = s[j]
    BY <1>2
  <2> HIDE DEF j
  <2> QED
    BY <1>3, <2>1, <2>2
<1>5. Len(u) <= Len(t)
  BY <1>1, <1>2, <1>3
<1>6. IsSuffix(u, t)
  BY <1>2, <1>4, <1>5, SuffixIs
<1> QED
  BY <1>1, <1>2, <1>6 DEF IsRecent, u

\* What was there first stays there when more is appended.
LEMMA StartOfAppend ==
  ASSUME NEW S, NEW s \in Seq(S), NEW e \in S, NEW n \in 0 .. Len(s)
  PROVE  SubSeq(Append(s, e), 1, n) = SubSeq(s, 1, n)
<1>1. Len(s) \in Nat
  BY LenProperties
<1>2. CASE n = 0
  BY <1>2, SubSeqEmpty
<1>3. CASE n # 0
  <2>1. <<e>> \in Seq(S) /\ Append(s, e) = s \o <<e>>
    BY AppendIsConcat
  <2>2. 1 \in 1 .. Len(s) /\ n \in 1 .. Len(s)
    BY <1>1, <1>3
  <2>3. SubSeq(s \o <<e>>, 1, n) = SubSeq(s, 1, n)
    BY <2>1, <2>2, SubSeqOfConcat1
  <2> QED
    BY <2>1, <2>3
<1> QED
  BY <1>2, <1>3

\* A record that is recent was appended.
LEMMA RecentWasAppended ==
  ASSUME NEW S, NEW s \in Seq(S), NEW t \in Seq(S), IsRecent(s, t)
  PROVE  ToSet(s) \subseteq ToSet(t)
<1>1. Len(s) \in Nat /\ Len(t) \in Nat /\ DOMAIN s = 1 .. Len(s) /\ DOMAIN t = 1 .. Len(t)
  BY LenProperties
<1>2. /\ Len(s) <= Len(t)
      /\ \A i \in 1 .. Len(s) : s[i] = t[Len(t) - Len(s) + i]
  BY SuffixIs DEF IsRecent
<1>3. \A i \in 1 .. Len(s) : Len(t) - Len(s) + i \in 1 .. Len(t)
  BY <1>1, <1>2
<1> QED
  BY <1>1, <1>2, <1>3 DEF ToSet

\* Among some positions, one has exactly k of them up to itself.
LEMMA NthIsThere ==
  ASSUME NEW n \in Nat, NEW R \in SUBSET (1 .. n), NEW k \in 1 .. Cardinality(R)
  PROVE  \E i \in R : Cardinality({j \in R : j <= i}) = k
<1> DEFINE C(i) == {j \in R : j <= i}
           Enough == {i \in 0 .. n : Cardinality(C(i)) >= k}
<1> HIDE DEF C
<1>0. IsFiniteSet(1 .. n) /\ \A j \in R : j \in Nat \ {0} /\ j <= n
  BY FS_Interval
<1>1. IsFiniteSet(R)
  BY <1>0, FS_Subset
<1>2. \A i \in Nat : IsFiniteSet(C(i)) /\ Cardinality(C(i)) \in Nat
  <2> TAKE i \in Nat
  <2>1. C(i) \in SUBSET R
    BY DEF C
  <2> QED
    BY <1>1, <2>1, FS_Subset, FS_CardinalityType
<1>3. C(0) = {} /\ C(n) = R
  <2>1. \A j \in R : ~ (j <= 0) /\ j <= n
    BY <1>0
  <2> QED
    BY <2>1, Zenon DEF C
<1>4. ASSUME NEW i \in 1 .. n
      PROVE  /\ i \notin C(i - 1)
             /\ C(i) = IF i \in R THEN C(i - 1) \cup {i} ELSE C(i - 1)
  <2>1. \A j \in R : (j <= i) <=> (j <= i - 1 \/ j = i)
    BY <1>0
  <2>2. ~ (i <= i - 1)
    OBVIOUS
  <2> QED
    BY <2>1, <2>2, Zenon DEF C
<1>5. Cardinality(R) \in Nat /\ k \in Nat \ {0}
  BY <1>1, FS_CardinalityType
<1>6. n \in Enough /\ Enough \subseteq Nat
  BY <1>3, <1>5
<1>7. PICK m \in Enough : \A i \in Enough : ~ (<<i, m>> \in OpToRel(<, Nat))
  <2> HIDE DEF Enough
  <2> QED
    BY <1>6, NatLessThanWellFounded, WFMin
<1>8. \A i \in Enough : ~ (i < m)
  BY <1>6, <1>7 DEF OpToRel
<1>9. m # 0
  BY <1>3, <1>5, FS_EmptySet
<1>10. m \in 1 .. n /\ m - 1 \in 0 .. n /\ m - 1 \in Nat
  BY <1>9
<1>11. m - 1 \notin Enough
  <2> HIDE DEF Enough
  <2> QED
    BY <1>8, <1>10
<1>12. ~ (Cardinality(C(m - 1)) >= k)
  BY <1>10, <1>11
<1>13. Cardinality(C(m)) >= k
  OBVIOUS
<1>14. m \in R /\ Cardinality(C(m)) = Cardinality(C(m - 1)) + 1
  <2>1. C(m) # C(m - 1)
    BY <1>12, <1>13
  <2>2. m \in R /\ m \notin C(m - 1) /\ C(m) = C(m - 1) \cup {m}
    <3>1. m \in 1 .. n
      BY <1>10
    <3>2. m \notin C(m - 1) /\ C(m) = IF m \in R THEN C(m - 1) \cup {m} ELSE C(m - 1)
      BY <1>4, <3>1
    <3> QED
      BY <2>1, <3>2, Zenon
  <2>3. IsFiniteSet(C(m - 1))
    BY <1>2, <1>10
  <2> QED
    BY <2>2, <2>3, FS_AddElement
<1>15. Cardinality(C(m)) = k
  BY <1>2, <1>5, <1>10, <1>12, <1>13, <1>14
<1> QED
  BY <1>14, <1>15 DEF C

\* What a reader returns are lines of the file.
LEMMA ParsedType ==
  ASSUME NEW S, NEW s \in Seq(S)
  PROVE  Parsed(s) \in Seq(S)
<1> DEFINE R == {i \in DOMAIN s : s[i] # Junk}
           Nth(k) == CHOOSE i \in R : Cardinality({j \in R : j <= i}) = k
<1>1. Len(s) \in Nat /\ DOMAIN s = 1 .. Len(s) /\ R \in SUBSET (1 .. Len(s))
  BY LenProperties
<1>2. IsFiniteSet(R) /\ Cardinality(R) \in Nat
  <2> HIDE DEF R
  <2>1. IsFiniteSet(1 .. Len(s))
    BY <1>1, FS_Interval
  <2> QED
    BY <1>1, <2>1, FS_Subset, FS_CardinalityType
<1>3. ASSUME NEW k \in 1 .. Cardinality(R) PROVE s[Nth(k)] \in S
  <2> HIDE DEF R
  <2>1. Nth(k) \in R
    BY <1>1, NthIsThere
  <2> QED
    BY <1>1, <2>1, ElementOfSeq
<1>4. Parsed(s) = [k \in 1 .. Cardinality(R) |-> s[Nth(k)]]
  BY DEF Parsed
<1> HIDE DEF R, Nth
<1> QED
  BY <1>2, <1>3, <1>4

\* Nothing is skipped of a file in which every line parses.
LEMMA ParsedOfRecords ==
  ASSUME NEW S, NEW s \in Seq(S), Junk \notin ToSet(s)
  PROVE  Parsed(s) = s
<1> DEFINE R == {i \in DOMAIN s : s[i] # Junk}
           Nth(k) == CHOOSE i \in R : Cardinality({j \in R : j <= i}) = k
<1>1. Len(s) \in Nat /\ DOMAIN s = 1 .. Len(s)
  BY LenProperties
<1>2. R = 1 .. Len(s)
  BY <1>1 DEF ToSet
<1>3. \A i \in R : {j \in R : j <= i} = 1 .. i
  BY <1>1, <1>2
<1>4. \A i \in Nat : Cardinality(1 .. i) = i
  BY FS_Interval
<1>5. Cardinality(R) = Len(s)
  BY <1>1, <1>2, <1>4
<1>6. ASSUME NEW k \in 1 .. Len(s) PROVE Nth(k) = k
  <2>1. \A i \in R : Cardinality({j \in R : j <= i}) = i
    <3> TAKE i \in R
    <3>1. i \in Nat /\ {j \in R : j <= i} = 1 .. i
      BY <1>1, <1>2, <1>3
    <3> HIDE DEF R
    <3> QED
      BY <1>4, <3>1
  <2> HIDE DEF R
  <2>2. k \in R
    BY <1>2, <1>6
  <2> QED
    BY <2>1, <2>2
<1>7. Parsed(s) = [k \in 1 .. Cardinality(R) |-> s[Nth(k)]]
  BY DEF Parsed
<1> HIDE DEF R, Nth
<1>8. Parsed(s) = [k \in 1 .. Len(s) |-> s[k]]
  BY <1>5, <1>6, <1>7
<1> QED
  BY <1>1, <1>8, LenProperties

-----------------------------------------------------------------------------
(***************************************************************************)
(* Files.                                                                  *)
(***************************************************************************)
\* There is always an inode that nobody has open and that has no name.
LEMMA FreshIsThere ==
  ASSUME TypeOK
  PROVE  /\ Fresh \in Inodes /\ Fresh # path /\ Fresh # tmp /\ Fresh # None
         /\ \A p \in Procs : Fresh # fd[p]
<1> DEFINE open == {fd[p] : p \in Procs}
           used == {path, tmp} \cup open
<1>1. IsFiniteSet(Procs) /\ Cardinality(Procs) \in Nat
  BY ProcsAssumption, FS_CardinalityType
<1>2. IsFiniteSet(open) /\ Cardinality(open) <= Cardinality(Procs)
  <2>1. fd \in Surjection(Procs, open)
    BY DEF Surjection, TypeOK
  <2> HIDE DEF open
  <2> QED
    BY <1>1, <2>1, FS_Surjection
<1>3. /\ IsFiniteSet(used) /\ Cardinality(used) \in Nat
      /\ Cardinality(used) <= Cardinality(Procs) + 2
  <2> HIDE DEF open
  <2>1. ASSUME NEW S, NEW x, IsFiniteSet(S)
        PROVE  IsFiniteSet(S \cup {x}) /\ Cardinality(S \cup {x}) <= Cardinality(S) + 1
    <3>1. Cardinality(S) \in Nat
      BY <2>1, FS_CardinalityType
    <3>2. /\ IsFiniteSet(S \cup {x})
          /\ Cardinality(S \cup {x}) = IF x \in S THEN Cardinality(S) ELSE Cardinality(S) + 1
      BY <2>1, FS_AddElement
    <3> QED
      BY <3>1, <3>2
  <2>2. /\ IsFiniteSet(open \cup {path}) /\ IsFiniteSet((open \cup {path}) \cup {tmp})
        /\ Cardinality(open \cup {path}) <= Cardinality(open) + 1
        /\ Cardinality((open \cup {path}) \cup {tmp}) <= Cardinality(open \cup {path}) + 1
    BY <1>2, <2>1
  <2>3. used = (open \cup {path}) \cup {tmp}
    OBVIOUS
  <2> HIDE DEF used
  <2> QED
    BY <1>1, <1>2, <2>2, <2>3, FS_CardinalityType
<1>4. IsFiniteSet(Inodes) /\ Cardinality(Inodes) = Cardinality(Procs) + 3
  BY <1>1, FS_Interval DEF Inodes
<1> HIDE DEF used
<1>5. ~ (Inodes \subseteq used)
  BY <1>1, <1>3, <1>4, FS_Subset
<1>6. \E i \in Inodes : i \notin used
  BY <1>5
<1>7. Fresh = CHOOSE i \in Inodes : i \notin used
  BY DEF Fresh, used
<1>8. Fresh \in Inodes /\ Fresh \notin used
  BY <1>6, <1>7
<1>9. None \notin Inodes
  BY DEF None, Inodes
<1> QED
  BY <1>8, <1>9 DEF used

\* What a rotation writes over another's is made of lines.
LEMMA OverwritesType ==
  ASSUME NEW new \in Seq(Lines), NEW old \in Seq(Lines)
  PROVE  Overwrites(new, old) \subseteq Seq(Lines)
<1>1. CASE old = <<>>
  BY <1>1 DEF Overwrites
<1>2. CASE old # <<>>
  <2> DEFINE ends == {SubSeq(old, k, Len(old)) : k \in 1 .. Len(old) + 1}
  <2>1. ends \subseteq Seq(Lines)
    <3> SUFFICES ASSUME NEW k \in 1 .. Len(old) + 1 PROVE SubSeq(old, k, Len(old)) \in Seq(Lines)
      OBVIOUS
    <3>1. Len(old) \in Nat /\ k \in Int /\ \A i \in k .. Len(old) : old[i] \in Lines
      BY LenProperties, ElementOfSeq
    <3> QED
      BY <3>1, SubSeqProperties
  <2>2. <<Junk>> \in Seq(Lines)
    <3>1. Junk \in Lines
      BY DEF Lines
    <3> QED
      BY <3>1
  <2>3. Overwrites(new, old) = {new \o rest : rest \in ends \cup {<<Junk>> \o end : end \in ends}}
    BY <1>2 DEF Overwrites
  <2> HIDE DEF ends
  <2>4. \A s, t \in Seq(Lines) : s \o t \in Seq(Lines)
    BY ConcatProperties
  <2> QED
    BY <2>1, <2>2, <2>3, <2>4
<1> QED
  BY <1>1, <1>2

\* The log is made of lines.
LEMMA LogType ==
  ASSUME TypeOK
  PROVE  log \in Seq(Lines)
BY EmptySeq DEF log, TypeOK, None

-----------------------------------------------------------------------------
(***************************************************************************)
(* Type correctness, with what each process has open and has read.         *)
(***************************************************************************)
Basics ==
  /\ TypeOK
  /\ FilesAt
  /\ \A p \in Procs : ProcAt(p)

\* No command has run.
LEMMA LogInitBasics == Init => Basics
<1> SUFFICES ASSUME Init PROVE Basics
  OBVIOUS
<1>1. Cardinality(Procs) \in Nat
  BY ProcsAssumption, FS_CardinalityType
<1>2. 1 \in Inodes /\ None \notin Inodes
  BY <1>1 DEF Inodes, None
<1>3. Old \in Seq(Lines) /\ <<>> \in Seq(Lines)
  BY OldAssumption, EmptySeq
<1>4. TypeOK
  BY <1>2, <1>3 DEF Init, TypeOK, Procs
<1>5. FilesAt
  BY <1>2, OldAssumption DEF Init, FilesAt, Steps, Rotation, ToSet, None
<1>6. \A p \in Procs : ProcAt(p)
  BY DEF Init, ProcAt, Rotation
<1> QED
  BY <1>4, <1>5, <1>6 DEF Basics

\* A step of one process leaves the others what they had.
LEMMA ProcsKept ==
  ASSUME Basics, NEW p \in Procs,
         \A q \in Procs \ {p} : pc'[q] = pc[q] /\ fd'[q] = fd[q] /\ lines'[q] = lines[q],
         ProcAt(p)'
  PROVE  \A q \in Procs : ProcAt(q)'
BY DEF Basics, ProcAt

\* A file is opened.
LEMMA OpensKeep ==
  ASSUME Basics, NEW p \in Procs, OpenAppend(p) \/ OpenRead(p) \/ OpenTmp(p) \/ ReadOpen(p)
  PROVE  Basics'
<1> USE DEF Goto
<1>1. /\ Fresh \in Inodes /\ Fresh # path /\ Fresh # tmp /\ Fresh # None
      /\ <<>> \in Seq(Lines) /\ None \notin Inodes
  BY FreshIsThere, EmptySeq DEF Basics, Inodes, None
<1>2. ProcAt(p)
  BY DEF Basics
<1>3. CASE OpenAppend(p)
  <2>1. TypeOK'
    BY <1>1, <1>3 DEF OpenAppend, history, Basics, TypeOK, Steps
  <2>2. FilesAt'
    BY <1>1, <1>3 DEF OpenAppend, history, Basics, TypeOK, FilesAt
  <2>3. ProcAt(p)'
    BY <1>1, <1>2, <1>3, ProcsAssumption DEF OpenAppend, Basics, TypeOK, ProcAt, Rotation
  <2>4. \A q \in Procs \ {p} : pc'[q] = pc[q] /\ fd'[q] = fd[q] /\ lines'[q] = lines[q]
    BY <1>3 DEF OpenAppend, Basics, TypeOK
  <2> QED
    BY <2>1, <2>2, <2>3, <2>4, ProcsKept DEF Basics
<1>4. CASE OpenRead(p)
  <2>1. TypeOK'
    BY <1>4 DEF OpenRead, files, history, Basics, TypeOK, Steps
  <2>2. path # None
    BY <1>4 DEF OpenRead, Basics, FilesAt, Steps
  <2>3. FilesAt'
    BY <1>4, <2>2 DEF OpenRead, files, history, Basics, TypeOK, FilesAt
  <2>4. ProcAt(p)'
    BY <1>2, <1>4, <2>2 DEF OpenRead, Basics, TypeOK, ProcAt, Rotation
  <2>5. \A q \in Procs \ {p} : pc'[q] = pc[q] /\ fd'[q] = fd[q] /\ lines'[q] = lines[q]
    BY <1>4 DEF OpenRead, Basics, TypeOK
  <2> QED
    BY <2>1, <2>3, <2>4, <2>5, ProcsKept DEF Basics
<1>5. CASE OpenTmp(p)
  <2>1. TypeOK'
    BY <1>1, <1>5 DEF OpenTmp, history, Basics, TypeOK, Steps, Rotation
  <2>2. path # None
    BY <1>5 DEF OpenTmp, Basics, FilesAt, Steps, Rotation
  <2>3. FilesAt'
    BY <1>1, <1>5, <2>2 DEF OpenTmp, history, Basics, TypeOK, FilesAt
  <2>4. ProcAt(p)'
    BY <1>1, <1>2, <1>5 DEF OpenTmp, Basics, TypeOK, ProcAt, Rotation
  <2>5. \A q \in Procs \ {p} : pc'[q] = pc[q] /\ fd'[q] = fd[q] /\ lines'[q] = lines[q]
    BY <1>5 DEF OpenTmp, Basics, TypeOK
  <2> QED
    BY <2>1, <2>3, <2>4, <2>5, ProcsKept DEF Basics
<1>6. CASE ReadOpen(p)
  <2>1. Len(appended) \in Nat
    BY LenProperties DEF Basics, TypeOK
  <2>2. TypeOK'
    BY <1>6, <2>1 DEF ReadOpen, files, Basics, TypeOK, Steps, Ended
  <2>3. FilesAt'
    BY <1>6 DEF ReadOpen, files, Basics, TypeOK, FilesAt, Steps, Rotation
  <2>4. ProcAt(p)'
    BY <1>2, <1>6, ProcsAssumption DEF ReadOpen, Basics, TypeOK, ProcAt, Rotation
  <2>5. \A q \in Procs \ {p} : pc'[q] = pc[q] /\ fd'[q] = fd[q] /\ lines'[q] = lines[q]
    BY <1>6 DEF ReadOpen, Basics, TypeOK
  <2> QED
    BY <2>2, <2>3, <2>4, <2>5, ProcsKept DEF Basics
<1> QED
  BY <1>3, <1>4, <1>5, <1>6

\* The lines that are on the file or in it.
LEMMA WritesKeep ==
  ASSUME Basics, NEW p \in Procs, Write(p) \/ WriteTmp(p)
  PROVE  Basics'
<1> USE DEF Goto
<1>1. ProcAt(p)
  BY DEF Basics
<1>2. fd[p] \in Inodes /\ data[fd[p]] \in Seq(Lines) /\ lines[p] \in Seq(Lines)
  BY <1>1 DEF Write, WriteTmp, ProcAt, Basics, TypeOK
<1>3. path # None
  BY DEF Write, WriteTmp, Basics, FilesAt, Steps, Rotation
<1>4. CASE Write(p)
  <2>1. p \in Writers /\ p \in Lines
    BY <1>1, <1>4 DEF Write, ProcAt, Procs, Lines
  <2>2. Append(data[fd[p]], p) \in Seq(Lines) /\ Append(appended, p) \in Seq(Lines)
    BY <1>2, <2>1, AppendProperties DEF Basics, TypeOK
  <2>3. TypeOK'
    BY <1>2, <1>4, <2>2 DEF Write, Basics, TypeOK, Steps
  <2>4. ToSet(Append(appended, p)) \subseteq ToSet(appended) \cup {p}
    <3>1. /\ appended \in Seq(Lines) /\ Len(appended) \in Nat
          /\ DOMAIN appended = 1 .. Len(appended)
      BY LenProperties DEF Basics, TypeOK
    <3>2. /\ DOMAIN Append(appended, p) = 1 .. Len(appended) + 1
          /\ \A i \in 1 .. Len(appended) : Append(appended, p)[i] = appended[i]
          /\ Append(appended, p)[Len(appended) + 1] = p
      BY <2>1, <2>2, <3>1, AppendProperties, LenProperties
    <3>3. \A i \in 1 .. Len(appended) + 1 : i \in 1 .. Len(appended) \/ i = Len(appended) + 1
      BY <3>1
    <3> QED
      BY <3>1, <3>2, <3>3 DEF ToSet
  <2>5. FilesAt'
    BY <1>3, <1>4, <2>1, <2>4, OldAssumption DEF Write, Basics, FilesAt
  <2>6. ProcAt(p)'
    BY <1>1, <1>4 DEF Write, Basics, TypeOK, ProcAt, Rotation
  <2>7. \A q \in Procs \ {p} : pc'[q] = pc[q] /\ fd'[q] = fd[q] /\ lines'[q] = lines[q]
    BY <1>4 DEF Write, Basics, TypeOK
  <2> QED
    BY <2>3, <2>5, <2>6, <2>7, ProcsKept DEF Basics
<1>5. CASE WriteTmp(p)
  <2>1. Len(lines[p]) > MaxEntries
    BY <1>1, <1>5 DEF WriteTmp, ProcAt, Rotation
  <2>2. LastEntries(lines[p]) \in Seq(Lines)
    BY <1>2, <2>1, LastEntriesType
  <2>3. Overwrites(LastEntries(lines[p]), data[fd[p]]) \subseteq Seq(Lines)
    BY <1>2, <2>2, OverwritesType
  <2>4. TypeOK'
    BY <1>2, <1>5, <2>3 DEF WriteTmp, history, Basics, TypeOK, Steps, Rotation
  <2>5. FilesAt'
    BY <1>3, <1>5 DEF WriteTmp, history, Basics, FilesAt
  <2>6. ProcAt(p)'
    BY <1>1, <1>5 DEF WriteTmp, Basics, TypeOK, ProcAt, Rotation
  <2>7. \A q \in Procs \ {p} : pc'[q] = pc[q] /\ fd'[q] = fd[q] /\ lines'[q] = lines[q]
    BY <1>5 DEF WriteTmp, Basics, TypeOK
  <2> QED
    BY <2>4, <2>5, <2>6, <2>7, ProcsKept DEF Basics
<1> QED
  BY <1>4, <1>5

\* A file is read.
LEMMA ReadsKeep ==
  ASSUME Basics, NEW p \in Procs, ReadLines(p) \/ ReadAll(p)
  PROVE  Basics'
<1> USE DEF Goto
<1>1. ProcAt(p)
  BY DEF Basics
<1>2. fd[p] \in Inodes /\ data[fd[p]] \in Seq(Lines)
  BY <1>1 DEF ReadLines, ReadAll, ProcAt, Basics, TypeOK
<1>3. path # None
  BY DEF ReadLines, ReadAll, Basics, FilesAt, Steps, Rotation
<1>4. Len(data[fd[p]]) \in Nat /\ MaxEntries \in Nat
  BY <1>2, LenProperties, EntriesAssumption
<1>5. FilesAt'
  BY <1>3 DEF ReadLines, ReadAll, files, history, Basics, FilesAt
<1>6. \A q \in Procs \ {p} : pc'[q] = pc[q] /\ fd'[q] = fd[q] /\ lines'[q] = lines[q]
  BY DEF ReadLines, ReadAll, Basics, TypeOK
<1>7. CASE ReadLines(p)
  <2>1. TypeOK'
    <3>1. pc' \in [Procs -> {"idle"} \cup Steps \cup Ended]
      BY <1>7 DEF ReadLines, Basics, TypeOK, Steps, Rotation, Ended
    <3>2. lines' \in [Procs -> Seq(Lines)] /\ disturbed' \in BOOLEAN
      BY <1>2, <1>7 DEF ReadLines, Basics, TypeOK
    <3> QED
      BY <1>7, <3>1, <3>2 DEF ReadLines, files, Basics, TypeOK
  <2>2. ProcAt(p)'
    BY <1>1, <1>4, <1>7 DEF ReadLines, Basics, TypeOK, ProcAt, Rotation
  <2> QED
    BY <1>5, <1>6, <2>1, <2>2, ProcsKept DEF Basics
<1>8. CASE ReadAll(p)
  <2>1. TypeOK'
    BY <1>2, <1>8, ParsedType DEF ReadAll, files, history, Basics, TypeOK, Ended
  <2>2. ProcAt(p)'
    BY <1>1, <1>8 DEF ReadAll, Basics, TypeOK, ProcAt, Rotation
  <2> QED
    BY <1>5, <1>6, <2>1, <2>2, ProcsKept DEF Basics
<1> QED
  BY <1>7, <1>8

\* A rotation or a process ends.
LEMMA EndsKeep ==
  ASSUME Basics, NEW p \in Procs, Replace(p) \/ RotateFails(p) \/ Killed(p)
  PROVE  Basics'
<1> USE DEF Goto
<1>1. ProcAt(p)
  BY DEF Basics
<1>2. path # None
  BY DEF Replace, RotateFails, Killed, Basics, FilesAt, Steps, Rotation
<1>3. TypeOK'
  BY DEF Replace, RotateFails, Killed, files, history, Basics, TypeOK, Ended
<1>4. FilesAt'
  BY <1>2 DEF Replace, RotateFails, Killed, files, history, Basics, FilesAt
<1>5. ProcAt(p)'
  BY <1>1, ProcsAssumption
  DEF Replace, RotateFails, Killed, Basics, TypeOK, ProcAt, Rotation
<1>6. \A q \in Procs \ {p} : pc'[q] = pc[q] /\ fd'[q] = fd[q] /\ lines'[q] = lines[q]
  BY DEF Replace, RotateFails, Killed, Basics, TypeOK
<1> QED
  BY <1>3, <1>4, <1>5, <1>6, ProcsKept DEF Basics

LEMMA BasicsKept ==
  ASSUME Basics, [Next]_vars
  PROVE  Basics'
<1>1. CASE UNCHANGED vars
  BY <1>1
  DEF vars, files, history, Basics, TypeOK, FilesAt, ProcAt
<1>2. ASSUME NEW p \in Procs,
             \/ OpenAppend(p) \/ Write(p) \/ RotateStep(p)
             \/ ReadOpen(p) \/ ReadAll(p) \/ Killed(p)
      PROVE  Basics'
  BY <1>2, OpensKeep, WritesKeep, ReadsKeep, EndsKeep DEF RotateStep
<1> QED
  BY <1>1, <1>2 DEF Next

\* Every line of every file is a record of an earlier command, of a writer, or does
\* not parse.
THEOREM OperationLogTypeCorrect == Spec => []TypeOK
<1>1. Init => Basics
  BY LogInitBasics
<1>2. Basics /\ [Next]_vars => Basics'
  BY BasicsKept
<1>3. Basics => TypeOK
  BY DEF Basics
<1> QED
  BY <1>1, <1>2, <1>3, PTL DEF Spec

-----------------------------------------------------------------------------
(***************************************************************************)
(* The newest records stay in the log.                                     *)
(***************************************************************************)
\* Of the log while nothing has met another's rotation.
Calm ==
  /\ IsRecent(log, appended)
  /\ \A p \in Procs : RotatesAlone(p)
  /\ \A r \in Readers : SeesPast(r)
  /\ Trimmed

\* A step that leaves the log alone, and after which its process does not rotate.
LEMMA AsideKeeps ==
  ASSUME Basics, Calm, NEW p \in Procs,
         path' = path, data' = data, appended' = appended,
         tmp' = tmp \/ (tmp' = None /\ pc[p] \in Rotation),
         \A q \in Procs \ {p} : pc'[q] = pc[q] /\ fd'[q] = fd[q] /\ lines'[q] = lines[q],
         \A r \in Readers \ {p} : owed'[r] = owed[r],
         pc'[p] \notin Rotation,
         pc'[p] = "reading" => SeesPast(p)',
         p \in Writers /\ appended # <<>> /\ Last(appended) = p =>
           (pc'[p] = "done" \/ (pc'[p] = "read" /\ fd'[p] # path) => Len(log) <= MaxEntries)
  PROVE  Calm'
<1>1. log' = log
  BY DEF log
<1>2. IsRecent(log, appended)'
  BY <1>1 DEF Calm, IsRecent
<1>3. ASSUME NEW q \in Procs PROVE RotatesAlone(q)'
  <2>1. CASE q = p
    BY <2>1 DEF RotatesAlone
  <2>2. CASE q # p
    BY <1>1, <2>2 DEF RotatesAlone, Calm, LastEntries
  <2> QED
    BY <2>1, <2>2
<1>4. ASSUME NEW r \in Readers PROVE SeesPast(r)'
  <2>1. CASE r = p
    BY <2>1 DEF SeesPast
  <2>2. CASE r # p
    <3>1. r \in Procs /\ SeesPast(r) /\ ProcAt(r)
      BY DEF Calm, Basics, Procs
    <3>2. pc[r] = "reading" => fd[r] # None
      BY <3>1 DEF ProcAt
    <3> QED
      BY <2>2, <3>1, <3>2 DEF SeesPast, IsRecent
  <2> QED
    BY <2>1, <2>2
<1>5. Trimmed'
  <2> SUFFICES ASSUME appended # <<>>, Last(appended) \in Writers,
                      \/ pc'[Last(appended)] = "done"
                      \/ pc'[Last(appended)] = "read" /\ fd'[Last(appended)] # path
               PROVE  Len(log) <= MaxEntries
    BY <1>1 DEF Trimmed, Last
  <2>1. Last(appended) \in Procs
    BY DEF Procs
  <2> QED
    BY <2>1 DEF Calm, Trimmed
<1> QED
  BY <1>2, <1>3, <1>4, <1>5 DEF Calm

\* A writer opens the log, or creates it.
LEMMA OpenAppendCalm ==
  ASSUME Basics, Calm, NEW p \in Procs, OpenAppend(p)
  PROVE  Calm'
<1> USE DEF OpenAppend, Goto
<1>1. pc' = [pc EXCEPT ![p] = "write"] /\ UNCHANGED <<tmp, lines, appended, disturbed, owed>>
  BY DEF history
<1>2. \A q \in Procs \ {p} : pc'[q] = pc[q] /\ fd'[q] = fd[q] /\ lines'[q] = lines[q]
  BY DEF Basics, TypeOK
<1>3. pc'[p] = "write"
  BY DEF Basics, TypeOK
<1>4. CASE path # None
  <2>1. path' = path /\ data' = data
    BY <1>4
  <2> QED
    BY <1>1, <1>2, <1>3, <2>1, AsideKeeps DEF Rotation
<1>5. CASE path = None
  <2>1. appended = <<>> /\ \A q \in Procs : pc[q] \notin Steps
    BY <1>5 DEF Basics, FilesAt
  <2>2. log = <<>>
    BY <1>5 DEF log
  <2>3. log' = <<>>
    BY <1>5, FreshIsThere DEF log, Basics, TypeOK
  <2>4. \A q \in Procs : pc'[q] \notin Rotation /\ pc'[q] # "reading"
    BY <1>2, <1>3, <2>1 DEF Steps, Rotation
  <2>5. IsRecent(log, appended)'
    BY <1>1, <2>2, <2>3 DEF Calm, IsRecent
  <2>6. (\A q \in Procs : RotatesAlone(q)') /\ (\A r \in Readers : SeesPast(r)')
    BY <2>4 DEF RotatesAlone, SeesPast, Procs
  <2>7. Trimmed'
    BY <1>1, <2>1 DEF Trimmed
  <2> QED
    BY <2>5, <2>6, <2>7 DEF Calm
<1> QED
  BY <1>4, <1>5

\* The record is appended to the log, and no rotation has read the log without it.
LEMMA WriteCalm ==
  ASSUME Basics, Calm, NEW p \in Procs, Write(p), ~ disturbed'
  PROVE  Calm'
<1> USE DEF Write, Goto
<1>1. fd[p] = path /\ \A q \in Procs : pc[q] \notin Rotation
  BY DEF Rotating
<1>2. path \in Inodes /\ path # None /\ path' = path /\ tmp' = tmp
  <2>1. fd[p] # None
    BY DEF Basics, ProcAt
  <2> QED
    BY <1>1, <2>1 DEF Basics, TypeOK
<1>3. p \in Writers /\ p \in Lines
  BY DEF Basics, ProcAt, Procs, Lines
<1>4. log \in Seq(Lines) /\ appended \in Seq(Lines) /\ log = data[path]
  BY <1>2, LogType DEF Basics, TypeOK, log
<1>5. /\ data'[path] = Append(log, p) /\ log' = Append(log, p)
      /\ \A i \in Inodes \ {path} : data'[i] = data[i]
  BY <1>1, <1>2, <1>4 DEF Basics, TypeOK, log
<1>6. appended' = Append(appended, p) /\ owed' = owed
  OBVIOUS
<1>7. IsRecent(Append(log, p), Append(appended, p))
  BY <1>3, <1>4, RecentGrows DEF Calm
<1>8. IsRecent(log, appended)'
  BY <1>5, <1>6, <1>7 DEF IsRecent
<1>9. /\ \A q \in Procs \ {p} : pc'[q] = pc[q] /\ fd'[q] = fd[q] /\ lines'[q] = lines[q]
      /\ pc'[p] = "open_read"
  BY DEF Basics, TypeOK
<1>10. \A q \in Procs : RotatesAlone(q)'
  BY <1>1, <1>9 DEF RotatesAlone, Rotation
<1>11. ASSUME NEW r \in Readers PROVE SeesPast(r)'
  <2> SUFFICES ASSUME pc'[r] = "reading"
               PROVE  /\ fd'[r] # tmp'
                      /\ \E n \in owed'[r] .. Len(appended') :
                            IsRecent(data'[fd'[r]], SubSeq(appended', 1, n))
    BY DEF SeesPast, IsRecent
  <2>1. r \in Procs \ {p} /\ pc[r] = "reading" /\ fd'[r] = fd[r]
    BY <1>9 DEF Procs
  <2>2. fd[r] \in Inodes
    BY <2>1 DEF Basics, TypeOK, ProcAt
  <2>3. fd[r] # tmp
    BY <2>1 DEF Calm, SeesPast
  <2>4. PICK n \in owed[r] .. Len(appended) : IsRecent(data[fd[r]], SubSeq(appended, 1, n))
    BY <2>1 DEF Calm, SeesPast
  <2>5. owed[r] \in Nat /\ Len(appended) \in Nat /\ Len(appended') = Len(appended) + 1
        /\ appended' \in Seq(Lines)
    BY <1>3, <1>4, <1>6, LenProperties, AppendProperties DEF Basics, TypeOK
  <2>6. CASE fd[r] = path
    <3>1. SubSeq(appended', 1, Len(appended')) = appended'
      BY <2>5, SubSeqFull
    <3>2. Len(appended') \in owed'[r] .. Len(appended')
      BY <1>6, <2>4, <2>5
    <3>3. IsRecent(data'[fd'[r]], SubSeq(appended', 1, Len(appended')))
      BY <1>5, <1>6, <1>7, <2>1, <2>6, <3>1
    <3> QED
      BY <1>2, <2>1, <2>3, <3>2, <3>3
  <2>7. CASE fd[r] # path
    <3>1. n \in 0 .. Len(appended) /\ n \in owed'[r] .. Len(appended')
      BY <1>6, <2>4, <2>5
    <3>2. SubSeq(appended', 1, n) = SubSeq(appended, 1, n)
      BY <1>3, <1>4, <1>6, <3>1, StartOfAppend
    <3>3. data'[fd'[r]] = data[fd[r]]
      BY <1>5, <2>1, <2>2, <2>7
    <3> QED
      BY <1>2, <2>1, <2>3, <2>4, <3>1, <3>2, <3>3
  <2> QED
    BY <2>6, <2>7
<1>12. Trimmed'
  <2>1. Last(appended') = p
    BY <1>3, <1>4, <1>6, AppendProperties DEF Last
  <2> QED
    BY <1>9, <2>1 DEF Trimmed, Last
<1> QED
  BY <1>8, <1>10, <1>11, <1>12 DEF Calm

\* A rotation reads the log; if it is too long, nobody else rotates.
LEMMA ReadLinesCalm ==
  ASSUME Basics, Calm, NEW p \in Procs, ReadLines(p), ~ disturbed'
  PROVE  Calm'
<1> USE DEF ReadLines, Goto
<1>1. /\ UNCHANGED <<path, tmp, data, appended, owed>>
      /\ \A q \in Procs \ {p} : pc'[q] = pc[q] /\ fd'[q] = fd[q] /\ lines'[q] = lines[q]
  BY DEF files, Basics, TypeOK
<1>2. path # None
  BY DEF Basics, FilesAt, Steps
<1>3. CASE Len(data[fd[p]]) <= MaxEntries
  <2>1. pc'[p] = "done"
    BY <1>3 DEF Basics, TypeOK
  <2>2. ASSUME p \in Writers, appended # <<>>, Last(appended) = p
        PROVE  Len(log) <= MaxEntries
    <3>1. CASE fd[p] = path
      BY <1>2, <1>3, <3>1 DEF log
    <3>2. CASE fd[p] # path
      BY <2>2, <3>2 DEF Calm, Trimmed
    <3> QED
      BY <3>1, <3>2
  <2> QED
    BY <1>1, <2>1, <2>2, AsideKeeps DEF Rotation
<1>4. CASE ~ (Len(data[fd[p]]) <= MaxEntries)
  <2>1. /\ fd[p] = path /\ (\A q \in Procs : pc[q] \notin Rotation)
        /\ pc'[p] = "open_tmp" /\ lines'[p] = data[fd[p]]
    BY <1>4 DEF Rotating, Basics, TypeOK
  <2>2. log' = log /\ log = data[path]
    BY <1>1, <1>2 DEF log
  <2>3. IsRecent(log, appended)'
    BY <1>1, <2>2 DEF Calm, IsRecent
  <2>4. \A q \in Procs : RotatesAlone(q)'
    BY <1>1, <2>1, <2>2 DEF RotatesAlone, Rotation
  <2>5. \A r \in Readers : SeesPast(r)'
    BY <1>1, <2>1 DEF Calm, SeesPast, IsRecent, Procs
  <2>6. Trimmed'
    <3>1. appended # <<>> /\ Last(appended) \in Writers => Last(appended) \in Procs
      BY DEF Procs
    <3> QED
      BY <1>1, <2>1, <2>2, <3>1 DEF Calm, Trimmed, Last
  <2> QED
    BY <2>3, <2>4, <2>5, <2>6 DEF Calm
<1> QED
  BY <1>3, <1>4

\* A rotation opens its temp file, which no reader has open.
LEMMA OpenTmpCalm ==
  ASSUME Basics, Calm, NEW p \in Procs, OpenTmp(p)
  PROVE  Calm'
<1> USE DEF OpenTmp, Goto
<1>1. /\ UNCHANGED <<path, appended, owed>> /\ lines' = lines
      /\ \A q \in Procs \ {p} : pc'[q] = pc[q] /\ fd'[q] = fd[q]
      /\ pc'[p] = "write_tmp" /\ fd'[p] = tmp'
  BY DEF history, Basics, TypeOK
<1>2. path # None /\ path # tmp /\ path \in Inodes
  BY DEF Basics, TypeOK, FilesAt, Steps, Rotation
<1>3. /\ tmp' \in Inodes /\ tmp' # path /\ data'[tmp'] = <<>>
      /\ \A i \in Inodes \ {tmp'} : data'[i] = data[i]
      /\ tmp' = tmp \/ \A q \in Procs : tmp' # fd[q]
  BY <1>2, FreshIsThere DEF Basics, TypeOK
<1>4. log' = log
  BY <1>1, <1>2, <1>3 DEF log
<1>5. lines[p] = log /\ \A q \in Procs \ {p} : pc[q] \notin Rotation
  BY DEF Calm, RotatesAlone, Rotation
<1>6. IsRecent(log, appended)'
  BY <1>1, <1>4 DEF Calm, IsRecent
<1>7. \A q \in Procs : RotatesAlone(q)'
  BY <1>1, <1>3, <1>4, <1>5 DEF RotatesAlone, Rotation
<1>8. ASSUME NEW r \in Readers PROVE SeesPast(r)'
  <2>1. r \in Procs /\ ProcAt(r) /\ SeesPast(r)
    BY DEF Basics, Calm, Procs
  <2>2. ASSUME pc'[r] = "reading" PROVE fd[r] \in Inodes /\ fd[r] # tmp' /\ fd'[r] = fd[r]
    BY <1>1, <1>3, <2>1, <2>2 DEF Basics, TypeOK, ProcAt, SeesPast
  <2> QED
    BY <1>1, <1>3, <2>1, <2>2 DEF SeesPast, IsRecent
<1>9. Trimmed'
  <2>1. appended # <<>> /\ Last(appended) \in Writers => Last(appended) \in Procs
    BY DEF Procs
  <2> QED
    BY <1>1, <1>4, <2>1 DEF Calm, Trimmed, Last
<1> QED
  BY <1>6, <1>7, <1>8, <1>9 DEF Calm

\* The temp file holds the newest records of the log.
LEMMA WriteTmpCalm ==
  ASSUME Basics, Calm, NEW p \in Procs, WriteTmp(p)
  PROVE  Calm'
<1> USE DEF WriteTmp, Goto
<1>1. /\ UNCHANGED <<path, tmp, appended, owed>> /\ lines' = lines
      /\ \A q \in Procs \ {p} : pc'[q] = pc[q] /\ fd'[q] = fd[q]
      /\ pc'[p] = "replace"
  BY DEF history, Basics, TypeOK
<1>2. path # None /\ path # tmp /\ path \in Inodes
  BY DEF Basics, TypeOK, FilesAt, Steps, Rotation
<1>3. /\ fd[p] = tmp /\ data[tmp] = <<>> /\ lines[p] = log
      /\ \A q \in Procs \ {p} : pc[q] \notin Rotation
  BY DEF Calm, RotatesAlone, Rotation
<1>4. tmp # None /\ tmp \in Inodes
  BY <1>3 DEF Basics, TypeOK, ProcAt
<1>5. /\ data'[tmp] = LastEntries(lines[p])
      /\ \A i \in Inodes \ {tmp} : data'[i] = data[i]
  BY <1>3, <1>4 DEF Overwrites, Basics, TypeOK
<1>6. log' = log
  BY <1>1, <1>2, <1>5 DEF log
<1>7. IsRecent(log, appended)'
  BY <1>1, <1>6 DEF Calm, IsRecent
<1>8. \A q \in Procs : RotatesAlone(q)'
  BY <1>1, <1>3, <1>4, <1>5, <1>6 DEF RotatesAlone, Rotation, LastEntries
<1>9. ASSUME NEW r \in Readers PROVE SeesPast(r)'
  <2>1. r \in Procs /\ ProcAt(r) /\ SeesPast(r)
    BY DEF Basics, Calm, Procs
  <2>2. ASSUME pc'[r] = "reading" PROVE fd[r] \in Inodes /\ fd[r] # tmp /\ fd'[r] = fd[r]
    BY <1>1, <2>1, <2>2 DEF Basics, TypeOK, ProcAt, SeesPast
  <2> QED
    BY <1>1, <1>5, <2>1, <2>2 DEF SeesPast, IsRecent
<1>10. Trimmed'
  <2>1. appended # <<>> /\ Last(appended) \in Writers => Last(appended) \in Procs
    BY DEF Procs
  <2> QED
    BY <1>1, <1>6, <2>1 DEF Calm, Trimmed, Last
<1> QED
  BY <1>7, <1>8, <1>9, <1>10 DEF Calm

\* The temp file becomes the log.
LEMMA ReplaceCalm ==
  ASSUME Basics, Calm, NEW p \in Procs, Replace(p)
  PROVE  Calm'
<1> USE DEF Replace, Goto
<1>1. /\ UNCHANGED <<data, appended, owed>> /\ fd' = fd /\ path' = tmp /\ tmp' = None
      /\ \A q \in Procs \ {p} : pc'[q] = pc[q]
      /\ pc'[p] = "done"
  BY DEF history, Basics, TypeOK
<1>2. /\ data[tmp] = LastEntries(log) /\ lines[p] = log
      /\ \A q \in Procs \ {p} : pc[q] \notin Rotation
  BY DEF Calm, RotatesAlone, Rotation
<1>3. log' = LastEntries(log)
  BY <1>1, <1>2 DEF log
<1>4. log \in Seq(Lines) /\ appended \in Seq(Lines) /\ Len(log) > MaxEntries
  BY <1>2, LogType DEF Basics, TypeOK, ProcAt, Rotation
<1>5. IsRecent(LastEntries(log), appended) /\ Len(LastEntries(log)) = MaxEntries
  BY <1>4, LastEntriesType, LastEntriesAreRecent DEF Calm
<1>6. IsRecent(log, appended)'
  BY <1>1, <1>3, <1>5 DEF IsRecent
<1>7. \A q \in Procs : RotatesAlone(q)'
  BY <1>1, <1>2 DEF RotatesAlone, Rotation
<1>8. ASSUME NEW r \in Readers PROVE SeesPast(r)'
  <2>1. r \in Procs /\ ProcAt(r) /\ SeesPast(r)
    BY DEF Basics, Calm, Procs
  <2>2. pc'[r] = "reading" => pc[r] = "reading" /\ fd[r] # None
    BY <1>1, <2>1 DEF ProcAt
  <2> QED
    BY <1>1, <2>1, <2>2 DEF SeesPast, IsRecent
<1>9. Trimmed'
  BY <1>3, <1>5, EntriesAssumption DEF Trimmed
<1> QED
  BY <1>6, <1>7, <1>8, <1>9 DEF Calm

\* A reader opens the log and has what was there at that time.
LEMMA ReadOpenCalm ==
  ASSUME Basics, Calm, NEW p \in Procs, ReadOpen(p)
  PROVE  Calm'
<1> USE DEF ReadOpen, Goto
<1>1. /\ UNCHANGED <<path, tmp, data, appended>> /\ lines' = lines
      /\ \A q \in Procs \ {p} : pc'[q] = pc[q] /\ fd'[q] = fd[q]
      /\ \A r \in Readers \ {p} : owed'[r] = owed[r]
      /\ fd'[p] = path /\ owed'[p] = Len(appended)
      /\ pc'[p] = IF path = None THEN "done" ELSE "reading"
  BY DEF files, Basics, TypeOK
<1>2. p \notin Writers
  BY ProcsAssumption
<1>3. ASSUME pc'[p] = "reading" PROVE SeesPast(p)'
  <2>1. path # None /\ path # tmp /\ log = data[path]
    BY <1>1, <1>3 DEF Basics, FilesAt, log
  <2>2. Len(appended) \in Nat /\ SubSeq(appended, 1, Len(appended)) = appended
    BY LenProperties, SubSeqFull DEF Basics, TypeOK
  <2>3. IsRecent(data[path], SubSeq(appended, 1, Len(appended)))
    BY <2>1, <2>2 DEF Calm
  <2>4. Len(appended) \in owed'[p] .. Len(appended)
    BY <1>1, <2>2
  <2> QED
    BY <1>1, <2>1, <2>3, <2>4 DEF SeesPast, IsRecent
<1>4. pc'[p] \notin Rotation
  BY <1>1 DEF Rotation
<1> QED
  BY <1>1, <1>2, <1>3, <1>4, AsideKeeps

LEMMA CalmKept ==
  ASSUME Basics, Undisturbed, [Next]_vars
  PROVE  Undisturbed'
<1> SUFFICES ASSUME ~ disturbed' PROVE Calm'
  BY DEF Undisturbed, Calm
<1>1. CASE UNCHANGED vars
  BY <1>1
  DEF vars, files, history, Undisturbed, Calm, RotatesAlone, SeesPast, Trimmed, log, IsRecent,
      LastEntries, Last
<1>2. ASSUME NEW p \in Procs,
             \/ OpenAppend(p) \/ Write(p) \/ RotateStep(p)
             \/ ReadOpen(p) \/ ReadAll(p) \/ Killed(p)
      PROVE  Calm'
  <2>1. ~ disturbed
    BY <1>2
    DEF OpenAppend, Write, RotateStep, OpenRead, ReadLines, OpenTmp, WriteTmp, Replace,
        RotateFails, ReadOpen, ReadAll, Killed, history, Basics, TypeOK
  <2>2. Calm
    BY <2>1 DEF Undisturbed, Calm
  <2>3. CASE OpenRead(p)
    <3>1. pc'[p] = "read" /\ fd'[p] = path
      BY <2>3 DEF OpenRead, Goto, Basics, TypeOK
    <3> QED
      BY <2>2, <2>3, <3>1, AsideKeeps
      DEF OpenRead, Goto, files, history, Rotation, Basics, TypeOK
  <2>4. CASE RotateFails(p) \/ Killed(p)
    <3>1. pc'[p] \in {"failed", "killed"}
      BY <2>4 DEF RotateFails, Killed, Goto, Basics, TypeOK
    <3> QED
      BY <2>2, <2>4, <3>1, AsideKeeps
      DEF RotateFails, Killed, Goto, files, history, Rotation, Basics, TypeOK
  <2>5. CASE ReadAll(p)
    <3>1. p \notin Writers /\ pc'[p] = "done"
      BY <2>5 DEF ReadAll, Goto, Basics, TypeOK, ProcAt
    <3> QED
      BY <2>2, <2>5, <3>1, AsideKeeps
      DEF ReadAll, Goto, files, history, Rotation, Basics, TypeOK
  <2> QED
    BY <1>2, <2>2, <2>3, <2>4, <2>5, OpenAppendCalm, WriteCalm, ReadLinesCalm, OpenTmpCalm,
       WriteTmpCalm, ReplaceCalm, ReadOpenCalm DEF RotateStep
<1> QED
  BY <1>1, <1>2 DEF Next

-----------------------------------------------------------------------------
(***************************************************************************)
(* What readers have seen.                                                 *)
(***************************************************************************)
\* The history only grows, and what a reader that is done has read and was owed stays.
LEMMA DoneIsLeftAlone ==
  ASSUME Basics, [Next]_vars, NEW r \in Readers, pc[r] = "done"
  PROVE  /\ lines'[r] = lines[r] /\ owed'[r] = owed[r]
         /\ appended' = appended \/ \E w \in Lines : appended' = Append(appended, w)
<1>1. r \in Procs
  BY DEF Procs
<1>2. CASE UNCHANGED vars
  BY <1>2 DEF vars, history
<1>3. ASSUME NEW p \in Procs,
             \/ OpenAppend(p) \/ Write(p) \/ RotateStep(p)
             \/ ReadOpen(p) \/ ReadAll(p) \/ Killed(p)
      PROVE  /\ lines'[r] = lines[r] /\ owed'[r] = owed[r]
             /\ appended' = appended \/ \E w \in Lines : appended' = Append(appended, w)
  <2>1. p # r
    BY <1>3
    DEF OpenAppend, Write, RotateStep, OpenRead, ReadLines, OpenTmp, WriteTmp, Replace,
        RotateFails, ReadOpen, ReadAll, Killed, Steps, Rotation
  <2>2. lines'[r] = lines[r] /\ owed'[r] = owed[r]
    BY <1>1, <1>3, <2>1
    DEF OpenAppend, Write, RotateStep, OpenRead, ReadLines, OpenTmp, WriteTmp, Replace,
        RotateFails, ReadOpen, ReadAll, Killed, history, Basics, TypeOK
  <2>3. CASE Write(p)
    <3>1. p \in Lines
      BY <2>3 DEF Write, Basics, ProcAt, Procs, Lines
    <3> QED
      BY <2>2, <2>3, <3>1 DEF Write
  <2>4. CASE ~ Write(p)
    BY <1>3, <2>2, <2>4
    DEF OpenAppend, RotateStep, OpenRead, ReadLines, OpenTmp, WriteTmp, Replace,
        RotateFails, ReadOpen, ReadAll, Killed, history
  <2> QED
    BY <2>3, <2>4
<1> QED
  BY <1>2, <1>3 DEF Next

LEMMA NoGapKept ==
  ASSUME Basics, Undisturbed, ReadersSeeNoGap, [Next]_vars
  PROVE  ReadersSeeNoGap'
<1> SUFFICES ASSUME NEW r \in Readers, pc'[r] = "done", ~ disturbed'
             PROVE  \E n \in owed'[r] .. Len(appended') :
                       IsRecent(lines'[r], SubSeq(appended', 1, n))
  BY DEF ReadersSeeNoGap, IsRecent
<1>1. r \in Procs /\ ProcAt(r)
  BY DEF Basics, Procs
<1>2. appended \in Seq(Lines) /\ Len(appended) \in Nat /\ owed[r] \in Nat
  BY LenProperties DEF Basics, TypeOK
<1>3. ~ disturbed
  BY DEF Next, OpenAppend, Write, RotateStep, OpenRead, ReadLines, OpenTmp, WriteTmp, Replace,
         RotateFails, ReadOpen, ReadAll, Killed, vars, history, Basics, TypeOK
<1>4. CASE pc[r] = "done"
  <2>1. PICK n \in owed[r] .. Len(appended) : IsRecent(lines[r], SubSeq(appended, 1, n))
    BY <1>3, <1>4 DEF ReadersSeeNoGap
  <2>2. /\ lines'[r] = lines[r] /\ owed'[r] = owed[r]
        /\ appended' = appended \/ \E w \in Lines : appended' = Append(appended, w)
    BY <1>4, DoneIsLeftAlone
  <2>3. CASE appended' = appended
    BY <2>1, <2>2, <2>3
  <2>4. ASSUME NEW w \in Lines, appended' = Append(appended, w)
        PROVE  \E m \in owed'[r] .. Len(appended') :
                  IsRecent(lines'[r], SubSeq(appended', 1, m))
    <3>1. Len(appended') = Len(appended) + 1
      BY <1>2, <2>4, AppendProperties
    <3>2. n \in 0 .. Len(appended) /\ n \in owed'[r] .. Len(appended')
      BY <1>2, <2>1, <2>2, <3>1
    <3>3. SubSeq(appended', 1, n) = SubSeq(appended, 1, n)
      BY <1>2, <2>4, <3>2, StartOfAppend
    <3> QED
      BY <2>1, <2>2, <3>2, <3>3
  <2> QED
    BY <2>2, <2>3, <2>4
<1>5. CASE pc[r] # "done"
  <2>1. ReadOpen(r) \/ ReadAll(r)
    <3>1. CASE UNCHANGED vars
      BY <1>5, <3>1 DEF vars
    <3>2. ASSUME NEW p \in Procs,
                 \/ OpenAppend(p) \/ Write(p) \/ RotateStep(p)
                 \/ ReadOpen(p) \/ ReadAll(p) \/ Killed(p)
          PROVE  ReadOpen(r) \/ ReadAll(r)
      <4>1. p = r
        BY <1>1, <1>5, <3>2
        DEF OpenAppend, Write, RotateStep, OpenRead, ReadLines, OpenTmp, WriteTmp, Replace,
            RotateFails, ReadOpen, ReadAll, Killed, Goto, Basics, TypeOK
      <4>2. pc[r] \in {"idle", "reading", "killed"} /\ r \notin Writers
        BY <1>1, <1>5, ProcsAssumption DEF ProcAt
      <4>3. ~ (OpenAppend(r) \/ Write(r) \/ RotateStep(r) \/ Killed(r))
        BY <1>1, <4>2
        DEF OpenAppend, Write, RotateStep, OpenRead, ReadLines, OpenTmp, WriteTmp, Replace,
            RotateFails, Killed, Goto, Rotation, Basics, TypeOK
      <4> QED
        BY <3>2, <4>1, <4>3
    <3> QED
      BY <3>1, <3>2 DEF Next
  <2>2. CASE ReadOpen(r)
    <3>1. path = None /\ lines'[r] = lines[r] /\ owed'[r] = Len(appended) /\ appended' = appended
      BY <1>1, <2>2 DEF ReadOpen, Goto, Basics, TypeOK
    <3>2. lines[r] = <<>> /\ appended = <<>>
      BY <1>1, <2>2, <3>1 DEF ReadOpen, ProcAt, Basics, FilesAt
    <3>3. Len(appended) = 0 /\ SubSeq(appended, 1, 0) = appended
      BY <3>2, SubSeqEmpty, EmptySeq
    <3>4. IsRecent(appended, appended)
      BY <1>2, AllIsRecent
    <3>5. 0 \in owed'[r] .. Len(appended')
      BY <3>1, <3>3
    <3>6. IsRecent(lines'[r], SubSeq(appended', 1, 0))
      BY <3>1, <3>2, <3>3, <3>4
    <3> QED
      BY <3>5, <3>6
  <2>3. CASE ReadAll(r)
    <3>1. SeesPast(r) /\ pc[r] = "reading"
      BY <1>3, <2>3 DEF ReadAll, Undisturbed
    <3>2. PICK n \in owed[r] .. Len(appended) : IsRecent(data[fd[r]], SubSeq(appended, 1, n))
      BY <3>1 DEF SeesPast
    <3>3. data[fd[r]] \in Seq(Lines)
      BY <1>1, <3>1 DEF ProcAt, Basics, TypeOK
    <3>4. /\ SubSeq(appended, 1, n) \in Seq(Lines)
          /\ ToSet(SubSeq(appended, 1, n)) \subseteq ToSet(appended)
      <4>1. n \in 0 .. Len(appended) /\ n \in Int /\ 1 .. n \subseteq 1 .. Len(appended)
        BY <1>2, <3>2
      <4>2. DOMAIN appended = 1 .. Len(appended)
        BY <1>2, LenProperties
      <4>3. \A i \in 1 .. n : appended[i] \in Lines
        BY <1>2, <4>1, ElementOfSeq
      <4>4. /\ SubSeq(appended, 1, n) \in Seq(Lines)
            /\ Len(SubSeq(appended, 1, n)) = n
            /\ \A i \in 1 .. n : SubSeq(appended, 1, n)[i] = appended[i]
        <5>1. /\ SubSeq(appended, 1, n) \in Seq(Lines)
              /\ Len(SubSeq(appended, 1, n)) = IF 1 <= n THEN n - 1 + 1 ELSE 0
              /\ \A i \in 1 .. n - 1 + 1 : SubSeq(appended, 1, n)[i] = appended[1 + i - 1]
          BY <4>1, <4>3, SubSeqProperties
        <5> QED
          BY <4>1, <5>1
      <4>5. DOMAIN SubSeq(appended, 1, n) = 1 .. n
        BY <4>4, LenProperties
      <4> QED
        BY <4>1, <4>2, <4>4, <4>5 DEF ToSet
    <3>5. Junk \notin ToSet(data[fd[r]])
      BY <3>2, <3>3, <3>4, RecentWasAppended DEF Basics, FilesAt
    <3>6. lines'[r] = data[fd[r]]
      BY <1>1, <2>3, <3>3, <3>5, ParsedOfRecords DEF ReadAll, Basics, TypeOK
    <3>7. owed' = owed /\ appended' = appended
      BY <2>3 DEF ReadAll, history
    <3> QED
      BY <3>2, <3>6, <3>7
  <2> QED
    BY <2>1, <2>2, <2>3
<1> QED
  BY <1>4, <1>5

-----------------------------------------------------------------------------
(***************************************************************************)
(* What the log promises.                                                  *)
(***************************************************************************)
LEMMA LogInitInvariant == Init => LogInvariant
<1> SUFFICES ASSUME Init PROVE LogInvariant
  OBVIOUS
<1>1. Basics
  BY LogInitBasics
<1>2. log = appended /\ appended \in Seq(Lines)
  <2>1. 1 \in Inodes
    BY <1>1, ProcsAssumption, FS_CardinalityType DEF Inodes
  <2> QED
    BY <1>1, <2>1 DEF Init, log, None, Basics, TypeOK
<1>3. IsRecent(log, appended)
  BY <1>2, AllIsRecent
<1>4. Undisturbed
  BY <1>3 DEF Init, Undisturbed, RotatesAlone, SeesPast, Trimmed, Rotation, Procs
<1>5. ReadersSeeNoGap
  BY DEF Init, ReadersSeeNoGap, Procs
<1> QED
  BY <1>1, <1>4, <1>5 DEF LogInvariant, Basics

\* As long as nothing meets another's rotation, at most one process rotates, and what
\* it holds is the log; a reader's file is the log as it was.
THEOREM LogInvariantHolds == Spec => []LogInvariant
<1>1. LogInvariant /\ [Next]_vars => LogInvariant'
  <2> SUFFICES ASSUME LogInvariant, [Next]_vars PROVE LogInvariant'
    OBVIOUS
  <2>1. Basics /\ Undisturbed /\ ReadersSeeNoGap
    BY DEF LogInvariant, Basics
  <2>2. Basics' /\ Undisturbed' /\ ReadersSeeNoGap'
    BY <2>1, BasicsKept, CalmKept, NoGapKept
  <2> QED
    BY <2>2 DEF LogInvariant, Basics
<1> QED
  BY <1>1, LogInitInvariant, PTL DEF Spec

\* Only the oldest records are dropped (_rotate_if_needed), however many commands
\* append at the same time, whichever of them are killed or fail half way.
THEOREM NewestStay == Spec => []OnlyOldestDropped
<1>1. LogInvariant => OnlyOldestDropped
  BY DEF LogInvariant, Undisturbed, OnlyOldestDropped
<1> QED
  BY <1>1, LogInvariantHolds, PTL

\* Once the last writer has ended normally, the log is within its limit.
THEOREM LogIsBounded == Spec => []BoundedWhenQuiet
<1>1. LogInvariant => BoundedWhenQuiet
  BY DEF LogInvariant, Undisturbed, Trimmed, BoundedWhenQuiet
<1> QED
  BY <1>1, LogInvariantHolds, PTL

\* A reader never sees a rotation half done.
THEOREM NoGapIsRead == Spec => []ReadersSeeNoGap
<1>1. LogInvariant => ReadersSeeNoGap
  BY DEF LogInvariant
<1> QED
  BY <1>1, LogInvariantHolds, PTL

-----------------------------------------------------------------------------
(***************************************************************************)
(* Below the limit.                                                        *)
(***************************************************************************)
\* Nobody has a file with too many lines, so nobody begins to rotate.
LEMMA UnrotatedKept ==
  ASSUME Basics, Unrotated, [Next]_vars
  PROVE  Unrotated'
<1> SUFFICES ASSUME Len(appended') <= MaxEntries
             PROVE  /\ log' = appended'
                    /\ \A q \in Procs : /\ pc'[q] \notin Rotation
                                        /\ pc'[q] \in {"write", "read", "reading"} => fd'[q] = path'
  BY DEF Unrotated
<1> USE DEF Goto
<1>1. appended \in Seq(Lines) /\ Len(appended) \in Nat /\ MaxEntries \in Nat
  BY LenProperties, EntriesAssumption DEF Basics, TypeOK
<1>2. CASE UNCHANGED vars
  BY <1>2 DEF vars, files, history, Unrotated, log
<1>3. ASSUME NEW p \in Procs,
             \/ OpenAppend(p) \/ Write(p) \/ RotateStep(p)
             \/ ReadOpen(p) \/ ReadAll(p) \/ Killed(p)
      PROVE  /\ log' = appended'
             /\ \A q \in Procs : /\ pc'[q] \notin Rotation
                                 /\ pc'[q] \in {"write", "read", "reading"} => fd'[q] = path'
  <2>1. CASE Write(p)
    <3>1. p \in Lines /\ ProcAt(p)
      BY <2>1 DEF Write, Basics, ProcAt, Procs, Lines
    <3>2. Len(appended) <= MaxEntries
      BY <1>1, <2>1, <3>1, AppendProperties DEF Write
    <3>3. log = appended /\ fd[p] = path /\ path # None /\ path \in Inodes
      BY <2>1, <3>1, <3>2 DEF Write, Unrotated, ProcAt, Basics, TypeOK
    <3>4. log' = appended'
      BY <2>1, <3>3 DEF Write, log, Basics, TypeOK
    <3> QED
      BY <2>1, <3>2, <3>4 DEF Write, Unrotated, Rotation, Basics, TypeOK
  <2>2. CASE ~ Write(p)
    <3>1. appended' = appended
      BY <1>3, <2>2
      DEF OpenAppend, RotateStep, OpenRead, ReadLines, OpenTmp, WriteTmp, Replace,
          RotateFails, ReadOpen, ReadAll, Killed, history
    <3>2. log = appended /\ \A q \in Procs : /\ pc[q] \notin Rotation
                                             /\ pc[q] \in {"write", "read", "reading"} => fd[q] = path
      BY <3>1 DEF Unrotated
    <3>3. CASE OpenAppend(p)
      <4>1. log' = log
        BY <3>3, FreshIsThere DEF OpenAppend, log, Basics, TypeOK
      <4>2. CASE path = None
        <5>1. \A q \in Procs : pc[q] \notin Steps
          BY <4>2 DEF Basics, FilesAt
        <5> QED
          BY <3>1, <3>2, <3>3, <4>1, <4>2, <5>1 DEF OpenAppend, Steps, Rotation, Basics, TypeOK
      <4>3. CASE path # None
        BY <3>1, <3>2, <3>3, <4>1, <4>3 DEF OpenAppend, Rotation, Basics, TypeOK
      <4> QED
        BY <4>2, <4>3
    <3>4. CASE ReadLines(p)
      <4>1. path # None /\ fd[p] = path
        BY <3>2, <3>4 DEF ReadLines, Basics, FilesAt, Steps
      <4>2. Len(data[fd[p]]) <= MaxEntries
        BY <3>1, <3>2, <4>1 DEF log
      <4> QED
        BY <3>1, <3>2, <3>4, <4>2 DEF ReadLines, files, log, Rotation, Basics, TypeOK
    <3>5. CASE OpenRead(p) \/ ReadOpen(p) \/ ReadAll(p) \/ Killed(p)
      BY <3>1, <3>2, <3>5
      DEF OpenRead, ReadOpen, ReadAll, Killed, files, log, Rotation, Basics, TypeOK
    <3>6. ~ (OpenTmp(p) \/ WriteTmp(p) \/ Replace(p) \/ RotateFails(p))
      BY <3>2 DEF OpenTmp, WriteTmp, Replace, RotateFails, Rotation
    <3> QED
      BY <1>3, <2>2, <3>3, <3>4, <3>5, <3>6 DEF RotateStep
  <2> QED
    BY <2>1, <2>2
<1> QED
  BY <1>2, <1>3 DEF Next

\* No record is lost before the limit is reached, even where appends and readers overlap
\* in ways the other theorems except.
THEOREM NoneIsLostBelowLimit == Spec => []CompleteBelowLimit
<1>1. Init => Basics /\ Unrotated
  <2> SUFFICES ASSUME Init PROVE Unrotated
    BY LogInitBasics
  <2>1. log = appended
    <3>1. 1 \in Inodes
      BY ProcsAssumption, FS_CardinalityType DEF Inodes
    <3> QED
      BY <3>1 DEF Init, log, None
  <2> QED
    BY <2>1 DEF Init, Unrotated, Rotation
<1>2. Basics /\ Unrotated /\ [Next]_vars => (Basics /\ Unrotated)'
  BY BasicsKept, UnrotatedKept
<1>3. Unrotated => CompleteBelowLimit
  BY DEF Unrotated, CompleteBelowLimit
<1> QED
  BY <1>1, <1>2, <1>3, PTL DEF Spec

-----------------------------------------------------------------------------
(***************************************************************************)
(* What is written to the log: the records of the commands and tools of    *)
(* Surfaces, for any set of sessions.  That module has its own variables,  *)
(* and no log: a call ends with the record that it appends.                *)
(***************************************************************************)
\* What the proofs need of the table of commands: how a command comes by its session
\* agrees with how its tool does, and a tool announced as read-only changes nothing
\* but a file.
Fits(x) ==
  /\ x.session = "raw" => x.name = "session_stop"
  /\ x.session = "resolved" => x.name \notin Creating \cup Less
  /\ x.name = "session_start" => x.session = "own"
  /\ x.does \subseteq {"file"} \/ x.name \notin ObservationTools

LEMMA TableFits == \A x \in Commands : Fits(x)
<1> USE DEF Fits, Creating, Less, ObservationTools, Command, Look,
            Act, Report
<1>1. \A x \in {SessionStart, SessionStop, SessionResize, FindCommand,
                ScreenshotCommand} : Fits(x)
  BY DEF SessionStart, SessionStop, SessionResize, FindCommand,
         ScreenshotCommand
<1>2. \A x \in {ActionCommand, WaitStableCommand, DoCommand,
                SelectorCommand, MenuCommand} : Fits(x)
  BY DEF ActionCommand, WaitStableCommand, DoCommand, SelectorCommand,
         MenuCommand
<1>3. \A x \in SessionQueries \cup InspectCommands \cup PointerCommands : Fits(x)
  BY DEF SessionQueries, InspectCommands, PointerCommands
<1>4. \A x \in DragCommands \cup KeyboardCommands \cup WaitCommands : Fits(x)
  BY DEF DragCommands, KeyboardCommands, WaitCommands
<1>5. \A x \in Diagnostics \cup Housekeeping \cup StatusCommands : Fits(x)
  BY DEF Diagnostics, Housekeeping, StatusCommands
<1>6. \A x \in ClipboardCommands \cup GestureCommands \cup NavigateCommands : Fits(x)
  BY DEF ClipboardCommands, GestureCommands, NavigateCommands
<1>7. \A x \in DomCommands \cup ScenarioCommands \cup ListingCommands : Fits(x)
  BY DEF DomCommands, ScenarioCommands, ListingCommands
<1> HIDE DEF Fits, Creating, Less, ObservationTools, Command, Look,
             Act, Report
<1> QED
  BY <1>1, <1>2, <1>3, <1>4, <1>5, <1>6, <1>7 DEF Commands

\* The command of a call is in the table.
LEMMA CommandIs ==
  ASSUME NEW c, c.name \in Listed
  PROVE  /\ Cmd(c) \in Commands /\ Cmd(c).name = c.name
         /\ Fits(Cmd(c))
<1>1. \E x \in Commands : x.name = c.name
  BY DEF Listed
<1>2. Cmd(c) \in Commands /\ Cmd(c).name = c.name
  BY <1>1 DEF Cmd
<1> QED
  BY <1>2, TableFits

\* The call with what has come of it so far.
With(step, target, effects, exit, why) ==
  [surface |-> call.surface, name |-> call.name, sid |-> call.sid,
   missing |-> call.missing, fault |-> call.fault, pc |-> step,
   target |-> target, effects |-> effects, exit |-> exit, why |-> why]

LEMMA SameCommand ==
  ASSUME NEW c, NEW d, c.name = d.name
  PROVE  Cmd(c) = Cmd(d)
BY DEF Cmd

\* A call that has not ended yet goes on.
LEMMA CallGoesOn ==
  ASSUME CallInvariant, call.pc # "idle",
         NEW step \in {"resolve", "run"}, NEW target \in Sessions \cup {Nil},
         call' = With(step, target, {}, call.exit, call.why),
         step = "resolve" => target = Nil,
         step = "run" => IF NeedsSession
                         THEN call.sid # Nil => target = call.sid
                         ELSE target = Nil
  PROVE  CallInvariant'
<1>1. /\ call'.surface = call.surface /\ call'.name = call.name /\ call'.sid = call.sid
      /\ call'.pc = step /\ call'.target = target /\ call'.effects = {}
  BY DEF With
<1>2. CallType
  BY DEF CallInvariant
<1>3. CallType'
  BY <1>1, <1>2 DEF CallType, With
<1>4. NeedsSession' <=> NeedsSession
  BY <1>1, SameCommand DEF NeedsSession
<1> QED
  BY <1>1, <1>3, <1>4
  DEF CallInvariant, Done, EffectsAreNamed, FailureIsRecorded, HintsAreTrue

\* A call ends.
LEMMA CallEnds ==
  ASSUME CallInvariant, call.pc # "idle",
         NEW target \in Sessions \cup {Nil}, NEW effects, NEW exit, NEW why,
         NEW sid, NEW code,
         call' = With("done", target, effects, exit, why),
         record' \in {Logged(sid, code), Nil},
         \/ exit = 0 <=> code = 0
         \/ call.surface = "cli" /\ exit = 2 /\ call.name \in {"mouse_click", "scenario_preflight"}
         \/ why = "interrupted",
         \A e \in effects : e.what \in Cmd(call).does,
         \/ Scenario
         \/ call.surface = "mcp" /\ call.name = "session_start"
         \/ why = "interrupted" /\ call.name \in {"session_start", "session_stop"}
         \/ \A e \in effects :
              /\ e.session = sid
              /\ e.adapter = "android" <=> e.session \in Android
              /\ call.sid # Nil /\ Cmd(call).session \in {"resolved", "raw"}
                   => e.session = call.sid
  PROVE  CallInvariant'
<1>1. /\ call'.surface = call.surface /\ call'.name = call.name /\ call'.sid = call.sid
      /\ call'.pc = "done" /\ call'.target = target /\ call'.effects = effects
      /\ call'.exit = exit /\ call'.why = why
  BY DEF With
<1>2. CallType
  BY DEF CallInvariant
<1>3. CallType'
  BY <1>1, <1>2 DEF CallType, With
<1>4. Cmd(call') = Cmd(call) /\ Fits(Cmd(call)) /\ Cmd(call).name = call.name
  BY <1>1, <1>2, SameCommand, CommandIs DEF CallType
<1>5. record' # Nil => record'.session = sid /\ record'.exit = code
  BY DEF Logged
<1>6. FailureIsRecorded'
  BY <1>1, <1>5 DEF FailureIsRecorded, Done
<1>7. EffectsAreNamed'
  BY <1>1, <1>4, <1>5 DEF EffectsAreNamed, Done, Scenario
<1>8. HintsAreTrue'
  <2> SUFFICES ASSUME \E e \in effects : e.what # "file"
               PROVE  call.name \notin ObservationTools
    BY <1>1 DEF HintsAreTrue, Done, ReadOnlyHint, DestructiveHint
  <2>1. ~(Cmd(call).does \subseteq {"file"})
    OBVIOUS
  <2> QED
    BY <1>4, <2>1 DEF Fits
<1> QED
  BY <1>1, <1>3, <1>6, <1>7, <1>8 DEF CallInvariant

\* The ends of a call as the actions write them.
LEMMA EndIs ==
  ASSUME CallType, NEW target, NEW effects, NEW exit, NEW why, NEW sid, NEW code
  PROVE  /\ Finish(call, exit, why, Logged(sid, code)) =>
              /\ call' = With("done", call.target, call.effects, exit, why)
              /\ record' \in {Logged(sid, code), Nil}
         /\ Finish([call EXCEPT !.effects = effects], exit, why, Logged(sid, code)) =>
              /\ call' = With("done", call.target, effects, exit, why)
              /\ record' \in {Logged(sid, code), Nil}
         /\ Finish([call EXCEPT !.target = target, !.effects = effects], exit, why,
                        Logged(sid, code)) =>
              /\ call' = With("done", target, effects, exit, why)
              /\ record' \in {Logged(sid, code), Nil}
<1>1. call = With(call.pc, call.target, call.effects, call.exit, call.why)
  BY DEF CallType, With
<1>2. ASSUME NEW t, NEW e
      PROVE  [With(call.pc, t, e, call.exit, call.why)
                EXCEPT !.pc = "done", !.exit = exit, !.why = why]
               = With("done", t, e, exit, why)
  <2> DEFINE r == With(call.pc, t, e, call.exit, call.why)
  <2>1. [r EXCEPT !.pc = "done", !.exit = exit, !.why = why]
          = [[[r EXCEPT !.pc = "done"] EXCEPT !.exit = exit] EXCEPT !.why = why]
    OBVIOUS
  <2>2. [r EXCEPT !.pc = "done"] = With("done", t, e, call.exit, call.why)
    BY DEF With
  <2>3. [With("done", t, e, call.exit, call.why) EXCEPT !.exit = exit]
          = With("done", t, e, exit, call.why)
    BY DEF With
  <2>4. [With("done", t, e, exit, call.why) EXCEPT !.why = why] = With("done", t, e, exit, why)
    BY DEF With
  <2> QED
    BY <2>1, <2>2, <2>3, <2>4
<1>3. /\ [call EXCEPT !.effects = effects] = With(call.pc, call.target, effects, call.exit, call.why)
      /\ [call EXCEPT !.target = target, !.effects = effects]
           = With(call.pc, target, effects, call.exit, call.why)
  <2>1. [call EXCEPT !.target = target, !.effects = effects]
          = [[call EXCEPT !.target = target] EXCEPT !.effects = effects]
    OBVIOUS
  <2>2. [With(call.pc, call.target, call.effects, call.exit, call.why) EXCEPT !.effects = effects]
          = With(call.pc, call.target, effects, call.exit, call.why)
    BY DEF With
  <2>3. [With(call.pc, call.target, call.effects, call.exit, call.why) EXCEPT !.target = target]
          = With(call.pc, target, call.effects, call.exit, call.why)
    BY DEF With
  <2>4. [With(call.pc, target, call.effects, call.exit, call.why) EXCEPT !.effects = effects]
          = With(call.pc, target, effects, call.exit, call.why)
    BY DEF With
  <2> QED
    BY <1>1, <2>1, <2>2, <2>3, <2>4
<1> QED
  BY <1>1, <1>2, <1>3 DEF Finish

\* A call that is refused, or whose use case raises, has done nothing.
LEMMA IdleEnd ==
  ASSUME CallInvariant, call.pc \in {"parse", "resolve", "run"},
         NEW exit, NEW why, NEW sid, NEW code,
         \/ exit = 0 <=> code = 0
         \/ call.surface = "cli" /\ exit = 2 /\ call.name \in {"mouse_click", "scenario_preflight"}
         \/ why = "interrupted",
         Finish(call, exit, why, Logged(sid, code))
  PROVE  CallInvariant'
<1>1. CallType /\ call.effects = {} /\ call.target \in Sessions \cup {Nil}
  BY DEF CallInvariant, CallType
<1>2. /\ call' = With("done", call.target, {}, exit, why)
      /\ record' \in {Logged(sid, code), Nil}
  BY <1>1, EndIs
<1> QED
  BY <1>1, <1>2, CallEnds

\* Nothing is logged of a call that is answered before its command is reached.
LEMMA RefusedEnd ==
  ASSUME CallInvariant, call.pc \in {"parse", "resolve", "run"},
         NEW exit, NEW why, Refused(exit, why)
  PROVE  CallInvariant'
<1>1. CallType /\ call.effects = {} /\ call.target \in Sessions \cup {Nil}
  BY DEF CallInvariant, CallType
<1>2. Finish(call, exit, why, Logged(Nil, exit))
  BY DEF Refused, Finish
<1> QED
  BY <1>2, IdleEnd

\* A use case has done what its command does to a session.
LEMMA DoneEnd ==
  ASSUME CallInvariant, call.pc = "run",
         NEW s \in Sessions \cup {Nil}, NEW sid, NEW exit, NEW why,
         \/ Scenario
         \/ call.surface = "mcp" /\ call.name = "session_start"
         \/ /\ s = sid
            /\ call.sid # Nil /\ Cmd(call).session \in {"resolved", "raw"} => s = call.sid,
         \/ /\ call' = With("done", s, Does(s), exit, why)
            /\ record' \in {Logged(sid, exit), Nil}
         \/ /\ call' = With("done", s, Drives, exit, why) /\ Scenario
            /\ record' \in {Logged(sid, exit), Nil}
  PROVE  CallInvariant'
<1>1. \A e \in Does(s) : /\ e.what \in Cmd(call).does /\ e.session = s
                         /\ e.adapter = "android" <=> e.session \in Android
  BY DEF Does, Adapter
<1>2. \A e \in Drives : e.what \in Cmd(call).does
  BY DEF Drives
<1> QED
  BY <1>1, <1>2, CallEnds

\* Ctrl-C ends a command that may have done what it does: its record says 0.
LEMMA InterruptedEnd ==
  ASSUME CallInvariant, call.pc = "run",
         NEW s \in Sessions \cup {Nil}, NEW sid, NEW effects \in {Does(s), Drives},
         call' = With("done", s, effects, 1, "interrupted"),
         record' \in {Logged(sid, 0), Nil},
         \/ Scenario
         \/ call.name \in {"session_start", "session_stop"}
         \/ /\ effects = Does(s) /\ s = sid
            /\ call.sid # Nil /\ Cmd(call).session \in {"resolved", "raw"} => s = call.sid
  PROVE  CallInvariant'
<1>1. \A e \in Does(s) : /\ e.what \in Cmd(call).does /\ e.session = s
                         /\ e.adapter = "android" <=> e.session \in Android
  BY DEF Does, Adapter
<1>2. \A e \in Drives : e.what \in Cmd(call).does
  BY DEF Drives
<1>3. \A e \in effects : e.what \in Cmd(call).does
  BY <1>1, <1>2
<1>4. \/ Scenario
      \/ call.name \in {"session_start", "session_stop"}
      \/ \A e \in effects :
           /\ e.session = sid
           /\ e.adapter = "android" <=> e.session \in Android
           /\ call.sid # Nil /\ Cmd(call).session \in {"resolved", "raw"}
                => e.session = call.sid
  BY <1>1
<1> QED
  BY <1>3, <1>4, CallEnds

LEMMA CallIsKept ==
  ASSUME CallInvariant, [CallNext]_callVars
  PROVE  CallInvariant'
<1>0. call.pc # "idle" =>
        /\ CallType
        /\ call = With(call.pc, call.target, call.effects, call.exit, call.why)
        /\ call.target \in Sessions \cup {Nil} /\ call.sid \in Sessions \cup {Nil}
        /\ Fits(Cmd(call)) /\ Cmd(call).name = call.name
  BY CommandIs DEF CallInvariant, CallType, With
<1>1. CASE Others \/ UNCHANGED callVars
  <2>1. UNCHANGED <<call, record>>
    BY <1>1 DEF Others, callVars
  <2> QED
    BY <2>1
    DEF CallInvariant, CallType, NeedsSession, Cmd, EffectsAreNamed,
        FailureIsRecorded, HintsAreTrue, Done, Scenario, ReadOnlyHint,
        DestructiveHint
<1>2. CASE Begin
  <2>1. PICK c \in Commands, surface \in {"cli", "mcp"}, sid \in Sessions \cup {Nil} :
          \E fault \in FaultsOf(c), missing \in {{}} \cup {{a} : a \in c.needs} :
            call' = [surface |-> surface, name |-> c.name, sid |-> sid, missing |-> missing,
                     fault |-> fault, pc |-> "parse", target |-> Nil, effects |-> {},
                     exit |-> 0, why |-> ""]
    BY <1>2 DEF Begin
  <2>2. /\ call'.pc = "parse" /\ call'.effects = {} /\ call'.target = Nil
        /\ call'.surface = surface /\ call'.name = c.name /\ call'.sid = sid
    <3>1. PICK fault, missing :
            call' = [surface |-> surface, name |-> c.name, sid |-> sid, missing |-> missing,
                     fault |-> fault, pc |-> "parse", target |-> Nil, effects |-> {},
                     exit |-> 0, why |-> ""]
      BY <2>1
    <3> QED
      BY <3>1
  <2>3. c.name \in Listed
    BY DEF Listed
  <2>4. CallType'
    BY <2>1, <2>2, <2>3 DEF CallType
  <2> QED
    BY <2>2, <2>4
    DEF CallInvariant, EffectsAreNamed, FailureIsRecorded, HintsAreTrue, Done
<1>3. CASE CliParse \/ McpParse
  <2>1. call.pc = "parse" /\ call.effects = {} /\ call.target = Nil
    BY <1>3 DEF CliParse, McpParse, CallInvariant
  <2>2. \/ call' = [call EXCEPT !.pc = "resolve"]
        \/ \E exit \in {1, 2}, why \in {"usage", "unknown", "schema"} : Refused(exit, why)
    BY <1>3 DEF CliParse, McpParse
  <2>3. [call EXCEPT !.pc = "resolve"] = With("resolve", Nil, {}, call.exit, call.why)
    BY <1>0, <2>1 DEF With
  <2> QED
    BY <2>1, <2>2, <2>3, CallGoesOn, RefusedEnd
<1>4. CASE ClickCheck
  <2>1. /\ call.pc = "resolve" /\ call.surface = "cli" /\ call.name = "mouse_click"
        /\ Finish(call, 2, "usage", Logged(Nil, 0))
    BY <1>4 DEF ClickCheck
  <2> QED
    BY <2>1, IdleEnd
<1>5. CASE Resolve
  <2>1. call.pc = "resolve" /\ call.effects = {} /\ call.target = Nil
    BY <1>5 DEF Resolve, CallInvariant
  <2>2. ASSUME NEW s \in Resolved(call.sid), call' = [call EXCEPT !.pc = "run", !.target = s],
               NeedsSession
        PROVE  CallInvariant'
    <3>1. s \in Sessions \cup {Nil} /\ (call.sid # Nil => s = call.sid)
      BY <1>0, <2>1, <2>2 DEF Resolved, Live
    <3>2. [call EXCEPT !.pc = "run", !.target = s]
            = [[call EXCEPT !.pc = "run"] EXCEPT !.target = s]
      OBVIOUS
    <3>3. [call EXCEPT !.pc = "run"] = With("run", Nil, {}, call.exit, call.why)
      BY <1>0, <2>1 DEF With
    <3>4. [With("run", Nil, {}, call.exit, call.why) EXCEPT !.target = s]
            = With("run", s, {}, call.exit, call.why)
      BY DEF With
    <3> QED
      BY <2>1, <2>2, <3>1, <3>2, <3>3, <3>4, CallGoesOn
  <2>3. ASSUME ~NeedsSession, call' = [call EXCEPT !.pc = "run"]
        PROVE  CallInvariant'
    <3>1. [call EXCEPT !.pc = "run"] = With("run", Nil, {}, call.exit, call.why)
      BY <1>0, <2>1 DEF With
    <3> QED
      BY <2>1, <2>3, <3>1, CallGoesOn
  <2> QED
    BY <1>5, <2>2, <2>3 DEF Resolve
<1>6. CASE Unresolved
  <2>1. call.pc = "resolve" /\ Finish(call, 1, "resolve", Logged(Nil, 1))
    BY <1>6 DEF Unresolved
  <2> QED
    BY <2>1, IdleEnd
<1>7. CASE McpCheck
  <2>1. /\ call.pc = "run"
        /\ \E why \in {"missing", "rejected"} :
             Finish(call, 1, why, Logged(call.target, 1))
    BY <1>7 DEF McpCheck, Fail, LoggedSession
  <2> QED
    BY <2>1, IdleEnd
<1>8. CASE Run
  <2>1. /\ call.pc = "run" /\ call.name # "session_stop"
        /\ \/ \E exit \in {0, 1}, why \in {"", "raised"} :
                Finish([call EXCEPT !.effects = Does(call.target)], exit, why,
                            Logged(call.target, exit))
           \/ Finish(call, 1, "raised", Logged(call.target, 1))
    BY <1>8 DEF Run, Fail, LoggedSession
  <2>2. call.sid # Nil /\ Cmd(call).session \in {"resolved", "raw"}
          => call.target = call.sid
    BY <1>0, <2>1 DEF CallInvariant, NeedsSession, Fits, CallType
  <2>3. ASSUME NEW exit \in {0, 1}, NEW why \in {"", "raised"},
               Finish([call EXCEPT !.effects = Does(call.target)], exit, why,
                           Logged(call.target, exit))
        PROVE  CallInvariant'
    <3>1. /\ call' = With("done", call.target, Does(call.target), exit, why)
          /\ record' \in {Logged(call.target, exit), Nil}
      BY <1>0, <2>1, <2>3, EndIs
    <3> QED
      BY <1>0, <2>1, <2>2, <3>1, DoneEnd
  <2> QED
    BY <2>1, <2>3, IdleEnd
<1>9. CASE RunStart
  <2>1. call.pc = "run" /\ call.name = "session_start"
    BY <1>9 DEF RunStart
  <2>2. ASSUME NEW s \in Sessions, NEW sid, sid = IF call.surface = "cli" THEN s ELSE Nil,
               NEW exit \in {0, 1}, NEW why \in {"", "raised"},
               Finish([call EXCEPT !.target = s, !.effects = Does(s)], exit, why,
                           Logged(sid, exit))
        PROVE  CallInvariant'
    <3>1. /\ call' = With("done", s, Does(s), exit, why)
          /\ record' \in {Logged(sid, exit), Nil}
      BY <1>0, <2>1, <2>2, EndIs
    <3>2. \/ call.surface = "mcp" /\ call.name = "session_start"
          \/ s = sid /\ Cmd(call).session \notin {"resolved", "raw"}
      BY <1>0, <2>1, <2>2 DEF Fits, CallType
    <3> QED
      BY <2>1, <3>1, <3>2, DoneEnd
  <2>3. \/ \E s \in Sessions, exit \in {0, 1}, why \in {"", "raised"} :
             Finish([call EXCEPT !.target = s, !.effects = Does(s)], exit, why,
                         Logged(IF call.surface = "cli" THEN s ELSE Nil, exit))
        \/ Finish(call, 1, "raised", Logged(Nil, 1))
    BY <1>9 DEF RunStart, Fail
  <2> QED
    BY <2>1, <2>2, <2>3, IdleEnd
<1>10. CASE RunStop
  <2> DEFINE given == IF call.surface = "cli" THEN call.sid ELSE call.target
  <2>1. call.pc = "run" /\ call.name = "session_stop"
    BY <1>10 DEF RunStop
  <2>2. call.sid # Nil => given = call.sid
    <3>1. call.surface = "mcp" => NeedsSession
      BY <2>1 DEF NeedsSession, Creating, Less
    <3> QED
      BY <1>0, <2>1, <3>1 DEF CallInvariant, CallType
  <2>3. ASSUME NEW s \in Stoppable(given), NEW exit \in {0, 1}, NEW why \in {"", "raised"},
               Finish([call EXCEPT !.target = s, !.effects = Does(s)], exit, why,
                           Logged(s, exit))
        PROVE  CallInvariant'
    <3>1. s \in Sessions /\ (given # Nil => s = given)
      BY <2>3 DEF Stoppable, Live
    <3>2. call.sid # Nil => s = call.sid
      BY <2>2, <3>1
    <3>3. /\ call' = With("done", s, Does(s), exit, why)
          /\ record' \in {Logged(s, exit), Nil}
      BY <1>0, <2>1, <2>3, EndIs
    <3> QED
      BY <2>1, <3>1, <3>2, <3>3, DoneEnd
  <2>4. \/ \E s \in Stoppable(given), exit \in {0, 1}, why \in {"", "raised"} :
             Finish([call EXCEPT !.target = s, !.effects = Does(s)], exit, why,
                         Logged(s, exit))
        \/ Finish(call, 1, "raised", Logged(given, 1))
    BY <1>10 DEF RunStop, Fail
  <2> HIDE DEF given
  <2> QED
    BY <2>1, <2>3, <2>4, IdleEnd
<1>11. CASE RunScenario
  <2>1. call.pc = "run" /\ Scenario
    BY <1>11 DEF RunScenario
  <2>2. ASSUME NEW exit, NEW why, NEW code,
               \/ exit = 0 <=> code = 0
               \/ call.surface = "cli" /\ exit = 2 /\ call.name = "scenario_preflight",
               Finish(call, exit, why, Logged(Nil, code))
        PROVE  CallInvariant'
    BY <2>1, <2>2, IdleEnd
  <2>3. ASSUME NEW exit, NEW why, NEW code, exit = 0 <=> code = 0,
               Finish([call EXCEPT !.effects = Drives], exit, why,
                           Logged(Nil, code))
        PROVE  CallInvariant'
    <3>1. /\ call' = With("done", call.target, Drives, exit, why)
          /\ record' \in {Logged(Nil, code), Nil}
      BY <1>0, <2>1, <2>3, EndIs
    <3>2. \A e \in Drives : e.what \in Cmd(call).does
      BY DEF Drives
    <3> QED
      BY <1>0, <2>1, <2>3, <3>1, <3>2, CallEnds
  <2>4. \/ \E exit \in {0, 2}, code \in {0, 2} :
             /\ \/ exit = 0 <=> code = 0
                \/ call.surface = "cli" /\ exit = 2 /\ call.name = "scenario_preflight"
             /\ Finish(call, exit, "reported", Logged(Nil, code))
        \/ \E exit \in {0, 1}, why \in {"", "rejected", "reported", "raised"} :
             Finish([call EXCEPT !.effects = Drives], exit, why,
                         Logged(Nil, exit))
        \/ Finish(call, 1, "raised", Logged(Nil, 1))
    BY <1>11, <1>0 DEF RunScenario, Fail, Scenario, CallType
  <2> QED
    BY <2>2, <2>3, <2>4
<1>12. CASE Interrupted
  <2>1. /\ call.pc \in {"resolve", "run"}
        /\ Finish(call, 1, "interrupted", Logged(call.target, 0))
    BY <1>12 DEF Interrupted, Interrupt, LoggedSession
  <2> QED
    BY <2>1, IdleEnd
<1>13. CASE InterruptedRun
  <2>1. call.pc = "run" /\ call.surface = "cli"
    BY <1>13 DEF InterruptedRun
  <2>2. ASSUME call.name \notin {"session_start", "session_stop"},
               NEW effects,
               effects = IF Scenario THEN Drives ELSE Does(call.target),
               Finish([call EXCEPT !.effects = effects], 1, "interrupted",
                           Logged(call.target, 0))
        PROVE  CallInvariant'
    <3>1. /\ call' = With("done", call.target, effects, 1, "interrupted")
          /\ record' \in {Logged(call.target, 0), Nil}
      BY <1>0, <2>1, <2>2, EndIs
    <3>2. call.sid # Nil /\ Cmd(call).session \in {"resolved", "raw"}
            => call.target = call.sid
      BY <1>0, <2>1, <2>2 DEF CallInvariant, NeedsSession, Fits, CallType
    <3> QED
      BY <1>0, <2>1, <2>2, <3>1, <3>2, InterruptedEnd
  <2>3. ASSUME call.name \in {"session_start", "session_stop"},
               NEW s \in Sessions, NEW sid \in Sessions \cup {Nil},
               Finish([call EXCEPT !.target = s, !.effects = Does(s)], 1, "interrupted",
                           Logged(sid, 0))
        PROVE  CallInvariant'
    <3>1. /\ call' = With("done", s, Does(s), 1, "interrupted")
          /\ record' \in {Logged(sid, 0), Nil}
      BY <1>0, <2>1, <2>3, EndIs
    <3> QED
      BY <2>1, <2>3, <3>1, InterruptedEnd
  <2> QED
    BY <1>13, <2>2, <2>3 DEF InterruptedRun, Interrupt, LoggedSession
<1> QED
  BY <1>1, <1>2, <1>3, <1>4, <1>5, <1>6, <1>7, <1>8, <1>9, <1>10, <1>11, <1>12, <1>13
  DEF CallNext

LEMMA CallAtInit == CallInit => CallInvariant
BY DEF CallInit, CallInvariant, EffectsAreNamed, FailureIsRecorded,
       HintsAreTrue, Done

LEMMA CallInvariantHolds == CallSpec => []CallInvariant
BY CallAtInit, CallIsKept, PTL DEF CallSpec

\* What a call does it does to the session it was given, through the adapters of that
\* session's backend, and its record names that session, whatever sessions come and go
\* meanwhile (_resolve_session, _log_operation): for any number of sessions.
THEOREM RecordsNameTheirSession == CallSpec => []EffectsAreNamed
<1>1. CallInvariant => EffectsAreNamed
  BY DEF CallInvariant
<1> QED
  BY <1>1, CallInvariantHolds, PTL

\* The record of a call says that it failed exactly when its caller was told so.
THEOREM RecordsTellFailure == CallSpec => []FailureIsRecorded
<1>1. CallInvariant => FailureIsRecorded
  BY DEF CallInvariant
<1> QED
  BY <1>1, CallInvariantHolds, PTL

\* What is announced as read-only drives nothing and changes no session; what does is
\* announced as destructive, if it is announced at all.
THEOREM HintsTellTheTruth == CallSpec => []HintsAreTrue
<1>1. CallInvariant => HintsAreTrue
  BY DEF CallInvariant
<1> QED
  BY <1>1, CallInvariantHolds, PTL
=============================================================================
