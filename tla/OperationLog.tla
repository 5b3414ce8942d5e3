---------------------------- MODULE OperationLog ----------------------------
(***************************************************************************)
(* FileOperationLog on one operations.jsonl.  Every command appends its    *)
(* record and then rotates the log if it has become too long; commands are *)
(* processes, and no lock orders them.  A file is an inode: who has opened *)
(* it keeps it when another file is renamed over its name.                 *)
(***************************************************************************)
EXTENDS Naturals, FiniteSets, Sequences, SequencesExt

CONSTANTS Writers,     \* processes, each appends one record: itself
          Readers,     \* processes that read the log
          Old,         \* the records of earlier commands
          Junk,        \* a line that does not parse
          MaxEntries,  \* _max_entries
          Faults       \* "kill": processes are killed; "error": rotation meets an OSError

Procs == Writers \cup Readers
Inodes == 1 .. 3 + Cardinality(Procs)
None == 0
Lines == Writers \cup ToSet(Old) \cup {Junk}

ASSUME EntriesAssumption == MaxEntries \in Nat \ {0}
ASSUME ProcsAssumption == IsFiniteSet(Procs) /\ Writers \cap Readers = {}
ASSUME OldAssumption == Old \in Seq(Lines) /\ Junk \notin Writers \cup ToSet(Old)
ASSUME LogFaultsAssumption == Faults \subseteq {"kill", "error"}

VARIABLES
  path,      \* the inode named operations.jsonl, or None
  tmp,       \* the inode named operations.jsonl.tmp, or None
  data,      \* the lines in each inode
  pc,        \* what each process does next
  fd,        \* the inode it has open, or None
  lines,     \* what it has read of the log
  appended,  \* history: all records in the order in which they were written
  disturbed, \* history: an append or a rotation has met another's rotation
  owed       \* history: of each reader, how many records there were when it opened

files == <<path, tmp, data>>
history == <<appended, disturbed, owed>>
vars == <<files, pc, fd, lines, history>>

Rotation == {"open_tmp", "write_tmp", "replace"}
Steps == {"write", "open_read", "read", "reading"} \cup Rotation
Ended == {"done", "failed", "killed"}

TypeOK ==
  /\ path \in Inodes \cup {None}
  /\ tmp \in Inodes \cup {None}
  /\ data \in [Inodes -> Seq(Lines)]
  /\ pc \in [Procs -> {"idle"} \cup Steps \cup Ended]
  /\ fd \in [Procs -> Inodes \cup {None}]
  /\ lines \in [Procs -> Seq(Lines)]
  /\ appended \in Seq(Lines)
  /\ disturbed \in BOOLEAN
  /\ owed \in [Readers -> Nat]

\* There is no log yet, or one with the records of earlier commands.
Init ==
  /\ \/ path = None /\ appended = <<>>
     \/ path = 1 /\ appended = Old
  /\ tmp = None
  /\ data = [i \in Inodes |-> IF i = path THEN Old ELSE <<>>]
  /\ pc = [p \in Procs |-> "idle"]
  /\ fd = [p \in Procs |-> None]
  /\ lines = [p \in Procs |-> <<>>]
  /\ disturbed = FALSE
  /\ owed = [r \in Readers |-> 0]

Goto(p, step) == pc' = [pc EXCEPT ![p] = step]
Fresh == CHOOSE i \in Inodes : i \notin {path, tmp} \cup {fd[p] : p \in Procs}
Rotating(ps) == \E q \in ps : pc[q] \in Rotation

(***************************************************************************)
(* append: one write to a file opened with O_APPEND.                       *)
(***************************************************************************)
OpenAppend(p) ==
  /\ pc[p] = "idle"
  /\ p \in Writers
  /\ LET i == IF path = None THEN Fresh ELSE path IN
       /\ path' = i
       /\ data' = IF path = None THEN [data EXCEPT ![i] = <<>>] ELSE data
       /\ fd' = [fd EXCEPT ![p] = i]
  /\ Goto(p, "write")
  /\ UNCHANGED <<tmp, lines, history>>

Write(p) ==
  /\ pc[p] = "write"
  /\ data' = [data EXCEPT ![fd[p]] = Append(@, p)]
  /\ fd' = [fd EXCEPT ![p] = None]
  /\ appended' = Append(appended, p)
  /\ disturbed' = (disturbed \/ fd[p] # path \/ Rotating(Procs))
  /\ Goto(p, "open_read")
  /\ UNCHANGED <<path, tmp, lines, owed>>

(***************************************************************************)
(* _rotate_if_needed.                                                      *)
(***************************************************************************)
OpenRead(p) ==
  /\ pc[p] = "open_read"
  /\ fd' = [fd EXCEPT ![p] = path]
  /\ Goto(p, "read")
  /\ UNCHANGED <<files, lines, history>>

\* Mutation: the limit is compared as if the new record were not in the log yet.
BugReadLate(p) ==
  /\ pc[p] = "read"
  /\ LET all == data[fd[p]] IN
       IF Len(all) <= MaxEntries + 1
         THEN Goto(p, "done") /\ UNCHANGED <<lines, disturbed>>
         ELSE /\ lines' = [lines EXCEPT ![p] = all]
              /\ disturbed' = (disturbed \/ fd[p] # path \/ Rotating(Procs))
              /\ Goto(p, "open_tmp")
  /\ fd' = [fd EXCEPT ![p] = None]
  /\ UNCHANGED <<files, appended, owed>>

ReadLines(p) ==
  /\ pc[p] = "read"
  /\ LET all == data[fd[p]] IN
       IF Len(all) <= MaxEntries
         THEN Goto(p, "done") /\ UNCHANGED <<lines, disturbed>>
         ELSE /\ lines' = [lines EXCEPT ![p] = all]
              /\ disturbed' = (disturbed \/ fd[p] # path \/ Rotating(Procs))
              /\ Goto(p, "open_tmp")
  /\ fd' = [fd EXCEPT ![p] = None]
  /\ UNCHANGED <<files, appended, owed>>

\* Mutation: what a killed rotation has left in the temp file stays there.
BugOpenTmp(p) ==
  /\ pc[p] = "open_tmp"
  /\ LET i == IF tmp = None THEN Fresh ELSE tmp IN
       /\ tmp' = i
       /\ data' = IF tmp = None THEN [data EXCEPT ![i] = <<>>] ELSE data
       /\ fd' = [fd EXCEPT ![p] = i]
  /\ Goto(p, "write_tmp")
  /\ UNCHANGED <<path, lines, history>>

\* Mutation: the log is rewritten in place.
BugOpenLog(p) ==
  /\ pc[p] = "open_tmp"
  /\ tmp' = path
  /\ data' = [data EXCEPT ![path] = <<>>]
  /\ fd' = [fd EXCEPT ![p] = path]
  /\ Goto(p, "write_tmp")
  /\ UNCHANGED <<path, lines, history>>

\* open(tmp_path, "w") creates the temp file or truncates the one it finds.
OpenTmp(p) ==
  /\ pc[p] = "open_tmp"
  /\ LET i == IF tmp = None THEN Fresh ELSE tmp IN
       /\ tmp' = i
       /\ data' = [data EXCEPT ![i] = <<>>]
       /\ fd' = [fd EXCEPT ![p] = i]
  /\ Goto(p, "write_tmp")
  /\ UNCHANGED <<path, lines, history>>

LastEntries(s) == SubSeq(s, Len(s) - MaxEntries + 1, Len(s))

\* Writing from offset 0 over another rotation's text may leave some of that.
Overwrites(new, old) ==
  IF old = <<>> THEN {new}
  ELSE LET ends == {SubSeq(old, k, Len(old)) : k \in 1 .. Len(old) + 1}
       IN  {new \o rest : rest \in ends \cup {<<Junk>> \o end : end \in ends}}

\* The lines fill several write calls, but nobody reads the temp file meanwhile.
WriteTmp(p) ==
  /\ pc[p] = "write_tmp"
  /\ \E text \in Overwrites(LastEntries(lines[p]), data[fd[p]]) :
       data' = [data EXCEPT ![fd[p]] = text]
  /\ fd' = [fd EXCEPT ![p] = None]
  /\ Goto(p, "replace")
  /\ UNCHANGED <<path, tmp, lines, history>>

Replace(p) ==
  /\ pc[p] = "replace"
  /\ tmp # None
  /\ path' = tmp
  /\ tmp' = None
  /\ Goto(p, "done")
  /\ UNCHANGED <<data, fd, lines, history>>

\* An OSError, among them: another rotation has taken the temp file away.
RotateFails(p) ==
  /\ pc[p] \in Rotation
  /\ "error" \in Faults \/ (pc[p] = "replace" /\ tmp = None)
  /\ \E left \in {None, tmp} : tmp' = left
  /\ fd' = [fd EXCEPT ![p] = None]
  /\ Goto(p, "failed")
  /\ UNCHANGED <<path, data, lines, history>>

(***************************************************************************)
(* read.                                                                   *)
(***************************************************************************)
ReadOpen(p) ==
  /\ pc[p] = "idle"
  /\ p \in Readers
  /\ fd' = [fd EXCEPT ![p] = path]
  /\ owed' = [owed EXCEPT ![p] = Len(appended)]
  /\ Goto(p, IF path = None THEN "done" ELSE "reading")
  /\ UNCHANGED <<files, lines, appended, disturbed>>

\* Lines that do not parse are skipped: the k-th record is the line that parses and
\* has k - 1 of them before it.
Parsed(s) ==
  LET records == {i \in DOMAIN s : s[i] # Junk}
      Nth(k) == CHOOSE i \in records : Cardinality({j \in records : j <= i}) = k
  IN  [k \in 1 .. Cardinality(records) |-> s[Nth(k)]]

ReadAll(p) ==
  /\ pc[p] = "reading"
  /\ lines' = [lines EXCEPT ![p] = Parsed(data[fd[p]])]
  /\ fd' = [fd EXCEPT ![p] = None]
  /\ Goto(p, "done")
  /\ UNCHANGED <<files, history>>

Killed(p) ==
  /\ "kill" \in Faults
  /\ pc[p] \in Steps
  /\ fd' = [fd EXCEPT ![p] = None]
  /\ Goto(p, "killed")
  /\ UNCHANGED <<files, lines, history>>

-----------------------------------------------------------------------------
RotateStep(p) == OpenRead(p) \/ ReadLines(p) \/ OpenTmp(p) \/ WriteTmp(p) \/ Replace(p)
                   \/ RotateFails(p)

Next == \E p \in Procs : \/ OpenAppend(p) \/ Write(p)
                         \/ RotateStep(p)
                         \/ ReadOpen(p) \/ ReadAll(p)
                         \/ Killed(p)

Spec == Init /\ [][Next]_vars

-----------------------------------------------------------------------------
(***************************************************************************)
(* Properties.                                                             *)
(***************************************************************************)
log == IF path = None THEN <<>> ELSE data[path]

\* The newest records, at least as many as the log is to keep (or all there are).
IsRecent(s, all) ==
  /\ IsSuffix(s, all)
  /\ Len(s) >= IF Len(all) < MaxEntries THEN Len(all) ELSE MaxEntries

(***************************************************************************)
(* "Drop oldest entries when file exceeds max_entries" (_rotate_if_needed, *)
(* file_operation_log.py:131): unless an append or a rotation has met      *)
(* another's rotation, the log always holds the newest records, although   *)
(* appends overlap, and rotations fail or are killed half way and leave    *)
(* their temp file behind.                                                 *)
(***************************************************************************)
OnlyOldestDropped == ~ disturbed => IsRecent(log, appended)

(***************************************************************************)
(* The same without the exception.                                         *)
(***************************************************************************)
NewestIsKept == IsRecent(log, appended)

(***************************************************************************)
(* As long as there are not more records than the log may hold, none is    *)
(* lost, whatever overlaps: nobody rewrites the log.                       *)
(***************************************************************************)
CompleteBelowLimit == Len(appended) <= MaxEntries => log = appended

(***************************************************************************)
(* The log is bounded: once the last writer has ended normally, it has     *)
(* taken away what exceeds the limit, its own and what failed or killed    *)
(* rotations before it had left.                                           *)
(***************************************************************************)
BoundedWhenQuiet ==
  ~ disturbed /\ appended # <<>> /\ Last(appended) \in Writers =>
     (pc[Last(appended)] = "done" => Len(log) <= MaxEntries)

(***************************************************************************)
(* A reader sees a stretch of the history without gaps that goes at least  *)
(* as far as the newest record when it opened the log, and as far back as  *)
(* the log has to: it never sees a rotation half done.                     *)
(***************************************************************************)
ReadersSeeNoGap ==
  \A r \in Readers : pc[r] = "done" /\ ~ disturbed =>
     \E n \in owed[r] .. Len(appended) : IsRecent(lines[r], SubSeq(appended, 1, n))

-----------------------------------------------------------------------------
(***************************************************************************)
(* Why.  While nothing has met another's rotation, at most one process     *)
(* rotates, and the log is still the one that it read; an append goes to   *)
(* the file that has the name; and who reads has a file that nobody writes *)
(* to any more, or the log.                                                *)
(***************************************************************************)
\* A file has one name, and only a log that is there is written, read or rotated.
FilesAt ==
  /\ path = None => appended = <<>> /\ \A p \in Procs : pc[p] \notin Steps
  /\ path # None => path # tmp
  /\ Junk \notin ToSet(appended)

\* What each process has open and has read.
ProcAt(p) ==
  /\ pc[p] \in {"write", "read", "reading", "write_tmp"} => fd[p] # None
  /\ pc[p] = "idle" => lines[p] = <<>>
  /\ pc[p] \in Rotation => Len(lines[p]) > MaxEntries
  /\ p \in Readers => pc[p] \in {"idle", "reading", "done", "killed"}
  /\ p \in Writers => pc[p] # "reading"

\* Nobody else rotates, and the temp file is the rotation's own.
RotatesAlone(p) ==
  pc[p] \in Rotation =>
    /\ \A q \in Procs : pc[q] \in Rotation => q = p
    /\ lines[p] = log
    /\ pc[p] = "write_tmp" => fd[p] = tmp /\ data[tmp] = <<>>
    /\ pc[p] = "replace" => tmp # None /\ data[tmp] = LastEntries(lines[p])

\* The file a reader has open is the log as it was at some time since.
SeesPast(r) ==
  pc[r] = "reading" =>
    /\ fd[r] # tmp
    /\ \E n \in owed[r] .. Len(appended) : IsRecent(data[fd[r]], SubSeq(appended, 1, n))

\* The last writer has left a log that is not too long, or another has before it looks.
Trimmed ==
  appended # <<>> /\ Last(appended) \in Writers =>
    LET w == Last(appended) IN
      pc[w] = "done" \/ (pc[w] = "read" /\ fd[w] # path) => Len(log) <= MaxEntries

Undisturbed ==
  ~ disturbed =>
    /\ IsRecent(log, appended)
    /\ \A p \in Procs : RotatesAlone(p)
    /\ \A r \in Readers : SeesPast(r)
    /\ Trimmed

\* Below the limit nobody rotates, and the file everybody has open is the log.
Unrotated ==
  Len(appended) <= MaxEntries =>
    /\ log = appended
    /\ \A p \in Procs : /\ pc[p] \notin Rotation
                        /\ pc[p] \in {"write", "read", "reading"} => fd[p] = path

LogInvariant ==
  /\ TypeOK
  /\ FilesAt
  /\ \A p \in Procs : ProcAt(p)
  /\ Undisturbed
  /\ ReadersSeeNoGap
=============================================================================
